---- MODULE Spec2Model ----
(***************************************************************************)
(* A model of the PM-Agents control plane:                                 *)
(*   - the project-state ledger   (src/src/core/project_state.py)          *)
(*   - the supervisor's TaskQueue (src/src/agents/supervisor/              *)
(*                                 supervisor_agent.py)                    *)
(*   - the message bus and router (src/agents/message_bus.py)              *)
(*   - the decision engine        (src/src/core/decision_engine.py)        *)
(*   - the coordinator's gate review (src/src/agents/coordinator/          *)
(*                                 coordinator_agent.py)                   *)
(*   - the agents' retry loop and circuit breaker                          *)
(*                                (src/src/core/base_agent.py)             *)
(*   - the bus-side supervisor's dispatch of tasks to executors            *)
(*                                (src/agents/supervisor_agent.py,         *)
(*                                 src/pm_system.py)                       *)
(* Each component has its own specification (SpecLedger, SpecPhases,       *)
(* SpecHealth, SpecQueue, SpecDriver, SpecDrain, SpecBus, SpecBusCounted,  *)
(* SpecBusTimed, SpecRouter, SpecDispatch, SpecGate, SpecQuality,          *)
(* SpecIntake, SpecEscalation, SpecReview, SpecCheckpoint, SpecBreaker);   *)
(* a specification leaves the variables of the other components at their   *)
(* initial values.                                                         *)
(***************************************************************************)
EXTENDS Integers, Sequences, FiniteSets, TLC

(***************************************************************************)
(* Bounds of the model.                                                    *)
(***************************************************************************)
MaxItems == 1
MaxBlockers == 1
MaxApiCalls == 2
MaxTasks == 2
MaxMsgs == 2
MaxSubs == 1
MaxClock == 40
MaxCounted == 4
MaxOutputs == 3
MaxPhaseOutputs == 2
MaxWords == 5
MaxAgents == 2
MaxRegistered == 2
MaxLoad == 2
MaxCalls == 4

MaxProcessCalls == 4

MaxIssues == 3


(***************************************************************************)
(* ----------------------------- LEDGER ---------------------------------- *)
(***************************************************************************)
VARIABLES status, phase, tokens_budget, tokens_used, tokens_remaining,
          api_calls, deliverables, risks, issues, blockers, go_decisions

ledgerVars == <<status, phase, tokens_budget, tokens_used, tokens_remaining,
                api_calls, deliverables, risks, issues, blockers, go_decisions>>

\* advance_phase: phases = ["initiation", ..., "closure"]
phases == <<"initiation", "planning", "execution", "monitoring", "closure">>

Phases == {phases[i] : i \in 1..Len(phases)}

\* phases.index(p)
PhaseIndex(p) == CHOOSE i \in 1..Len(phases) : phases[i] = p

\* dataclass default of tokens_remaining (independent of tokens_budget)
DefaultTokensRemaining == 50000

\* token budgets a ledger is constructed with (preferences["max_budget_tokens"])
Budgets == {0, 10000}

\* token counts reported to update_token_usage for a ledger with budget b
TokenInputs(b) == {5000, b + 1}

Severities == {"critical", "low"}

\* the phases a gate review is recorded for while the ledger is in phase p:
\* the current one, and in the second phase also the first one again
ReviewedPhases(p) == IF p = phases[2] THEN {p, phases[1]} ELSE {p}

Decisions == {"GO", "CONDITIONAL_GO", "NO_GO"}

\* the score the caller passes with a decision
ScoreOf(d) == IF d = "GO" THEN 95 ELSE IF d = "CONDITIONAL_GO" THEN 75 ELSE 40

\* a phase without an entry in go_decisions
NoDecision == [decision |-> "none", score |-> 0]

Max(a, b) == IF a >= b THEN a ELSE b

\* ProjectState(...): the construction the coordinator and the tests perform
LedgerInit ==
    /\ status \in {"pending", "in_progress"}
    /\ phase = "initiation"
    /\ tokens_budget \in Budgets
    /\ tokens_used = 0
    /\ tokens_remaining = DefaultTokensRemaining
    /\ api_calls = 0
    /\ deliverables = <<>>
    /\ risks = <<>>
    /\ issues = <<>>
    /\ blockers = <<>>
    /\ go_decisions = [p \in Phases |-> NoDecision]

\* the ledger of a specification that is not about the ledger
LedgerRest ==
    /\ status = "pending"
    /\ phase = "initiation"
    /\ tokens_budget = DefaultTokensRemaining
    /\ tokens_used = 0
    /\ tokens_remaining = DefaultTokensRemaining
    /\ api_calls = 0
    /\ deliverables = <<>>
    /\ risks = <<>>
    /\ issues = <<>>
    /\ blockers = <<>>
    /\ go_decisions = [p \in Phases |-> NoDecision]

\* the number of entries in the deliverables, risks and issues lists
ItemCount == Len(deliverables) + Len(risks) + Len(issues)

add_deliverable ==
    /\ ItemCount < MaxItems
    /\ deliverables' = Append(deliverables, "code")
    /\ UNCHANGED <<status, phase, tokens_budget, tokens_used, tokens_remaining,
                   api_calls, risks, issues, blockers, go_decisions>>

\* a risk entry: the keys of the risk dict the decision engine reads
CriticalRisk == [severity |-> "critical", mitigated |-> FALSE]

add_risk(risk) ==
    /\ ItemCount < MaxItems
    /\ risks' = Append(risks, risk)
    /\ UNCHANGED <<status, phase, tokens_budget, tokens_used, tokens_remaining,
                   api_calls, deliverables, issues, blockers, go_decisions>>

\* an issue as add_issue stores it: the caller's dict; a missing "status"
\* key reads as not resolved
CriticalIssue == [severity |-> "critical", status |-> "open"]

add_issue(issue) ==
    /\ ItemCount < MaxItems
    /\ issues' = Append(issues, issue)
    /\ UNCHANGED <<status, phase, tokens_budget, tokens_used, tokens_remaining,
                   api_calls, deliverables, risks, blockers, go_decisions>>

add_blocker(sev) ==
    /\ Len(blockers) < MaxBlockers
    /\ blockers' = Append(blockers, [severity |-> sev, status |-> "open"])
    /\ status' = "blocked"
    /\ UNCHANGED <<phase, tokens_budget, tokens_used, tokens_remaining,
                   api_calls, deliverables, risks, issues, go_decisions>>

\* unresolved = [b for b in self.blockers if b.get("status") != "resolved"]
Unresolved(bs) == {i \in 1..Len(bs) : bs[i].status # "resolved"}

\* blocker_index is 0-based in the code; i = blocker_index + 1
resolve_blocker(i) ==
    /\ IF 1 <= i /\ i <= Len(blockers)
         THEN /\ blockers' = [blockers EXCEPT ![i].status = "resolved"]
              /\ status' = IF Unresolved(blockers') = {} THEN "in_progress" ELSE status
         ELSE UNCHANGED <<blockers, status>>
    /\ UNCHANGED <<phase, tokens_budget, tokens_used, tokens_remaining,
                   api_calls, deliverables, risks, issues, go_decisions>>

\* advance_phase wrapping around after the last phase
NextPhaseWrap(p) ==
    IF p \in Phases THEN phases[(PhaseIndex(p) % Len(phases)) + 1] ELSE p

\* the phase after advance_phase
NextPhase(p) ==
    IF p \in Phases /\ PhaseIndex(p) < Len(phases) THEN phases[PhaseIndex(p) + 1] ELSE p

\* the status after advance_phase
NextStatus(p, s) ==
    IF p \in Phases /\ PhaseIndex(p) = Len(phases) THEN "completed" ELSE s

\* advancing on every decision that is not a NO_GO
AdvancesUnlessNoGo(decision) == decision # "NO_GO"

\* whether record_phase_gate_decision calls advance_phase
Advances(decision) == decision = "GO"

\* advance_phase() called on the ledger directly
advance_phase ==
    /\ phase' = NextPhase(phase)
    /\ status' = NextStatus(phase, status)
    /\ UNCHANGED <<tokens_budget, tokens_used, tokens_remaining, api_calls,
                   deliverables, risks, issues, blockers, go_decisions>>

\* record_phase_gate_decision, with the advance_phase call it makes on GO
record_phase_gate_decision(p, decision, score) ==
    /\ go_decisions' = [go_decisions EXCEPT ![p] = [decision |-> decision, score |-> score]]
    /\ IF Advances(decision)
         THEN /\ phase' = NextPhase(phase)
              /\ status' = NextStatus(phase, status)
         ELSE UNCHANGED <<phase, status>>
    /\ UNCHANGED <<tokens_budget, tokens_used, tokens_remaining, api_calls,
                   deliverables, risks, issues, blockers>>

\* the balance without the clamp at 0
RemainingUnclamped(budget, used) == budget - used

\* self.tokens_remaining = max(0, self.tokens_budget - self.tokens_used)
Remaining(budget, used) == Max(0, budget - used)

update_token_usage(tokens) ==
    /\ api_calls < MaxApiCalls
    /\ tokens_used' = tokens_used + tokens
    /\ tokens_remaining' = Remaining(tokens_budget, tokens_used')
    /\ api_calls' = api_calls + 1
    /\ UNCHANGED <<status, phase, tokens_budget, deliverables, risks, issues,
                   blockers, go_decisions>>

\* a health check that counts resolved critical issues too
is_healthy_any_status ==
    /\ ~ \E i \in 1..Len(blockers) :
            blockers[i].severity = "critical" /\ blockers[i].status # "resolved"
    /\ ~ (10 * tokens_remaining < tokens_budget)
    /\ ~ (Cardinality({i \in 1..Len(issues) : issues[i].severity = "critical"}) > 2)

\* is_healthy(); tokens_remaining < tokens_budget * 0.1 is compared exactly
is_healthy ==
    /\ ~ \E i \in 1..Len(blockers) :
            blockers[i].severity = "critical" /\ blockers[i].status # "resolved"
    /\ ~ (10 * tokens_remaining < tokens_budget)
    /\ ~ (Cardinality({i \in 1..Len(issues) :
                issues[i].severity = "critical" /\ issues[i].status # "resolved"}) > 2)

LedgerNext ==
    \/ add_deliverable
    \/ add_risk(CriticalRisk)
    \/ add_issue(CriticalIssue)
    \/ \E sev \in Severities : add_blocker(sev)
    \/ \E i \in 1..(MaxBlockers + 1) : resolve_blocker(i)
    \/ \E p \in ReviewedPhases(phase), d \in Decisions : record_phase_gate_decision(p, d, ScoreOf(d))
    \/ \E t \in TokenInputs(tokens_budget) : update_token_usage(t)

\* the calls that move the phase or the status, made in any order
PhaseNext ==
    \/ advance_phase
    \/ \E p \in Phases, d \in Decisions : record_phase_gate_decision(p, d, ScoreOf(d))
    \/ \E sev \in Severities : add_blocker(sev)
    \/ \E i \in 1..(MaxBlockers + 1) : resolve_blocker(i)

(***************************************************************************)
(* --------------------------- TASK QUEUE -------------------------------- *)
(***************************************************************************)
VARIABLES queues, in_progress, completed, failed, dependencies, driver

queueVars == <<queues, in_progress, completed, failed, dependencies, driver>>

TaskIds == 1..MaxTasks

\* the scan order of get_next_task
priorityOrder == <<"critical", "high", "medium", "low">>

TaskPriorities == {priorityOrder[i] : i \in 1..Len(priorityOrder)}

SeqToSet(s) == {s[i] : i \in 1..Len(s)}

\* the tasks waiting in some priority queue
Pending == UNION {SeqToSet(queues[p]) : p \in TaskPriorities}

\* the tasks handed to add_task so far
Added == Pending \cup in_progress \cup completed \cup failed

\* TaskQueue.__init__; dependencies[t] is task t's "dependencies" list once added
QueueInit ==
    /\ queues = [p \in TaskPriorities |-> <<>>]
    /\ in_progress = {}
    /\ completed = {}
    /\ failed = {}
    /\ dependencies = [t \in TaskIds |-> {}]
    /\ driver = [pc |-> "load", task |-> 0]

\* add_task of a task with a fresh task_id
add_task(t, priority, deps) ==
    /\ t \notin Added
    /\ queues' = [queues EXCEPT ![priority] = Append(@, t)]
    /\ dependencies' = [dependencies EXCEPT ![t] = deps]
    /\ UNCHANGED <<in_progress, completed, failed>>

\* counting a failed predecessor as done
_dependencies_finished(t) == \A dep_id \in dependencies[t] : dep_id \in completed \cup failed

_dependencies_met(t) == \A dep_id \in dependencies[t] : dep_id \in completed

\* looking at the head of the queue only
FirstReadyHeadOnly(q) == IF Len(q) > 0 /\ _dependencies_met(q[1]) THEN 1 ELSE 0

\* the first position of q holding a task whose dependencies are met, 0 if none
FirstReady(q) ==
    IF \E i \in 1..Len(q) : _dependencies_met(q[i])
      THEN CHOOSE i \in 1..Len(q) :
             /\ _dependencies_met(q[i])
             /\ \A j \in 1..(i - 1) : ~ _dependencies_met(q[j])
      ELSE 0

\* scanning the queues from "low" to "critical"
LastReadyPriority ==
    IF \E k \in 1..Len(priorityOrder) : FirstReady(queues[priorityOrder[k]]) # 0
      THEN CHOOSE k \in 1..Len(priorityOrder) :
             /\ FirstReady(queues[priorityOrder[k]]) # 0
             /\ \A j \in (k + 1)..Len(priorityOrder) : FirstReady(queues[priorityOrder[j]]) = 0
      ELSE 0

\* the first priority in scan order whose queue holds a ready task, 0 if none
FirstReadyPriority ==
    IF \E k \in 1..Len(priorityOrder) : FirstReady(queues[priorityOrder[k]]) # 0
      THEN CHOOSE k \in 1..Len(priorityOrder) :
             /\ FirstReady(queues[priorityOrder[k]]) # 0
             /\ \A j \in 1..(k - 1) : FirstReady(queues[priorityOrder[j]]) = 0
      ELSE 0

\* the task get_next_task returns, 0 for None
NextTask ==
    IF FirstReadyPriority = 0 THEN 0
    ELSE queues[priorityOrder[FirstReadyPriority]][FirstReady(queues[priorityOrder[FirstReadyPriority]])]

\* list.remove(task)
Remove(q, i) == [j \in 1..(Len(q) - 1) |-> IF j < i THEN q[j] ELSE q[j + 1]]

\* the effect of get_next_task on the queue
get_next_task ==
    IF NextTask = 0
      THEN UNCHANGED <<queues, in_progress, completed, failed, dependencies>>
      ELSE /\ queues' = [queues EXCEPT ![priorityOrder[FirstReadyPriority]] =
                           Remove(@, FirstReady(@))]
           /\ in_progress' = in_progress \cup {NextTask}
           /\ UNCHANGED <<completed, failed, dependencies>>

\* recording the result without taking the task out of in_progress
mark_completed_kept(t) ==
    /\ IF t \in in_progress
         THEN completed' = completed \cup {t}
         ELSE UNCHANGED completed
    /\ UNCHANGED <<queues, in_progress, failed, dependencies>>

mark_completed(t) ==
    /\ IF t \in in_progress
         THEN /\ in_progress' = in_progress \ {t}
              /\ completed' = completed \cup {t}
         ELSE UNCHANGED <<in_progress, completed>>
    /\ UNCHANGED <<queues, failed, dependencies>>

mark_failed(t) ==
    /\ IF t \in in_progress
         THEN /\ in_progress' = in_progress \ {t}
              /\ failed' = failed \cup {t}
         ELSE UNCHANGED <<in_progress, failed>>
    /\ UNCHANGED <<queues, completed, dependencies>>

\* sum(len(q) for q in self.queues.values())
PendingCount ==
    Len(queues["critical"]) + Len(queues["high"]) + Len(queues["medium"]) + Len(queues["low"])

get_progress ==
    LET total == PendingCount + Cardinality(in_progress) + Cardinality(completed)
                    + Cardinality(failed)
    IN  [pending |-> PendingCount,
         in_progress |-> Cardinality(in_progress),
         completed |-> Cardinality(completed),
         failed |-> Cardinality(failed),
         total |-> total,
         completion_percentage |->
             IF total > 0 THEN (Cardinality(completed) * 100) \div total ELSE 0]

\* ---- the queue driven by arbitrary callers
AddTask == \E t \in TaskIds, p \in TaskPriorities, deps \in SUBSET TaskIds :
              add_task(t, p, deps) /\ UNCHANGED driver

GetNextTask == get_next_task /\ UNCHANGED driver

MarkCompleted == \E t \in TaskIds : mark_completed(t) /\ UNCHANGED driver

MarkFailed == \E t \in TaskIds : mark_failed(t) /\ UNCHANGED driver

QueueNext == AddTask \/ GetNextTask \/ MarkCompleted \/ MarkFailed

\* ---- the queue driven by SupervisorAgent.execute_task / _execute_task_queue
\* for t in tasks: self.task_queue.add_task(t)
DriverLoad ==
    /\ driver.pc = "load"
    /\ \E t \in TaskIds, p \in TaskPriorities, deps \in SUBSET TaskIds : add_task(t, p, deps)
    /\ UNCHANGED driver

\* entering _execute_task_queue
DriverStart ==
    /\ driver.pc = "load"
    /\ driver' = [pc |-> "get", task |-> 0]
    /\ UNCHANGED <<queues, in_progress, completed, failed, dependencies>>

\* task = get_next_task(); if task is None: break
DriverGet ==
    /\ driver.pc = "get"
    /\ get_next_task
    /\ driver' = IF NextTask = 0 THEN [pc |-> "done", task |-> 0]
                 ELSE [pc |-> "exec", task |-> NextTask]

\* the specialist returned: mark_completed
DriverCompleted ==
    /\ driver.pc = "exec"
    /\ mark_completed(driver.task)
    /\ driver' = [pc |-> "get", task |-> 0]

\* the specialist raised: mark_failed
DriverFailed ==
    /\ driver.pc = "exec"
    /\ mark_failed(driver.task)
    /\ driver' = [pc |-> "get", task |-> 0]

\* execute_task is called again with a further plan
DriverAgain ==
    /\ driver.pc = "done"
    /\ driver' = [pc |-> "load", task |-> 0]
    /\ UNCHANGED <<queues, in_progress, completed, failed, dependencies>>

DriverNext ==
    DriverLoad \/ DriverStart \/ DriverGet \/ DriverCompleted \/ DriverFailed \/ DriverAgain

(***************************************************************************)
(* --------------------------- MESSAGE BUS ------------------------------- *)
(* One asyncio task per priority queue (_process_queue) and one sweeper    *)
(* (_cleanup_expired_messages) share the event loop.  A task runs without  *)
(* interruption between two awaits, so a step of the model is the code     *)
(* between two suspension points: taking a message and entering the first  *)
(* handler is one step, a handler returning (and either the next handler   *)
(* starting or the routing step finishing) is one step.                    *)
(***************************************************************************)
VARIABLES running, bus_queues, subscribers, pending_messages,
          acknowledged_messages, failed_messages, message_history,
          msg_priority, msg_recipient, published, worker, sweeper, now,
          delivery_attempts, handler_ok, pending_since

busVars == <<running, bus_queues, subscribers, pending_messages,
             acknowledged_messages, failed_messages, message_history,
             msg_priority, msg_recipient, published, worker, sweeper, now,
             handler_ok, delivery_attempts, pending_since>>

\* self.queues: critical, high, normal, low
busPriorities == <<"critical", "high", "normal", "low">>

Priorities == {busPriorities[i] : i \in 1..Len(busPriorities)}

\* the rank of a priority: 1 is the most urgent
Rank(p) == CHOOSE i \in 1..Len(busPriorities) : busPriorities[i] = p

Agents == {"a1"}

Msgs == 1..MaxMsgs

max_delivery_attempts == 3

acknowledgment_timeout_seconds == 30

\* await asyncio.sleep(10) in _cleanup_expired_messages
SweepInterval == 10

AckStatuses == {"received", "processed", "failed"}

Min(a, b) == IF a <= b THEN a ELSE b

\* pending_since[m] of a message that is not in pending_messages
NotPending == -1

\* a worker that is not inside _route_message
Idle(pc) == [pc |-> pc, msg |-> 0, idx |-> 0, ok |-> FALSE, live |-> FALSE, cbs |-> 0]

\* MessageBus.__init__
BusInit ==
    /\ running = FALSE
    /\ bus_queues = [p \in Priorities |-> <<>>]
    /\ subscribers = [a \in Agents |-> 0]
    /\ pending_messages = <<>>
    /\ acknowledged_messages = [m \in Msgs |-> "none"]
    /\ failed_messages = <<>>
    /\ message_history = <<>>
    /\ msg_priority = [m \in Msgs |-> "normal"]
    /\ msg_recipient = [m \in Msgs |-> "a1"]
    /\ published = 0
    /\ worker = [p \in Priorities |-> Idle("off")]
    /\ sweeper = "off"
    /\ now = 0
    /\ delivery_attempts = [m \in Msgs |-> 0]
    /\ handler_ok = [m \in Msgs |-> FALSE]
    /\ pending_since = [m \in Msgs |-> NotPending]

\* ---- pending_messages: a dict, kept in insertion order
\* message_id in self.pending_messages
IsPending(pm, m) == \E i \in 1..Len(pm) : pm[i].message_id = m

\* the position of message_id m
PendingIndex(pm, m) == CHOOSE i \in 1..Len(pm) : pm[i].message_id = m

\* self.pending_messages[message_id] = {"message": ..., "attempts": 0, "first_attempt": now}
Track(pm, m, t) ==
    IF IsPending(pm, m)
      THEN [pm EXCEPT ![PendingIndex(pm, m)] = [message_id |-> m, attempts |-> 0, first_attempt |-> t]]
      ELSE Append(pm, [message_id |-> m, attempts |-> 0, first_attempt |-> t])

\* del self.pending_messages[message_id]
Untrack(pm, m) == SelectSeq(pm, LAMBDA e : e.message_id # m)

\* dropping the message instead of recording it
_drop_message(fm, m, reason, t) == fm

\* _move_to_dead_letter
_move_to_dead_letter(fm, m, reason, t) ==
    Append(fm, [message |-> m, reason |-> reason, timestamp |-> t])

\* the queue publish puts a message of the given priority on
QueueOf(priority) == IF priority \in Priorities THEN priority ELSE "normal"

\* a queue that hands out the newest message first
put_front(queue, m) == <<m>> \o queue

\* await queue.put(message) on an asyncio.Queue
put(queue, m) == Append(queue, m)

\* the queues after publish(m)
Published(q, m) == [q EXCEPT ![QueueOf(msg_priority[m])] = put(@, m)]

\* the loop test of _process_queue after an iteration
AfterRoute == IF running THEN Idle("wait") ELSE Idle("exit")

\* ---- operations of the bus
\* start(): creates the four queue workers and the sweeper
Start ==
    /\ ~ running
    /\ \A p \in Priorities : worker[p].pc = "off"
    /\ running' = TRUE
    /\ worker' = [p \in Priorities |-> Idle("wait")]
    /\ sweeper' = "sleep"
    /\ UNCHANGED <<bus_queues, subscribers, pending_messages, acknowledged_messages,
                   failed_messages, message_history, msg_priority, msg_recipient,
                   published, now, handler_ok>>

\* stop()
Stop ==
    /\ running
    /\ running' = FALSE
    /\ UNCHANGED <<bus_queues, subscribers, pending_messages, acknowledged_messages,
                   failed_messages, message_history, msg_priority, msg_recipient,
                   published, worker, sweeper, now, handler_ok>>

\* publish(message) of a new message
Publish(priority, recipient) ==
    /\ published < MaxMsgs
    /\ published' = published + 1
    /\ msg_priority' = [msg_priority EXCEPT ![published'] = priority]
    /\ msg_recipient' = [msg_recipient EXCEPT ![published'] = recipient]
    /\ bus_queues' = [bus_queues EXCEPT ![QueueOf(priority)] = put(@, published')]
    /\ UNCHANGED <<running, subscribers, pending_messages, acknowledged_messages,
                   failed_messages, message_history, worker, sweeper, now, handler_ok>>

\* subscribe(agent_id, callback): appends to the agent's list
Subscribe(a) ==
    /\ subscribers[a] < MaxSubs
    /\ subscribers' = [subscribers EXCEPT ![a] = @ + 1]
    /\ UNCHANGED <<running, bus_queues, pending_messages, acknowledged_messages,
                   failed_messages, message_history, msg_priority, msg_recipient,
                   published, worker, sweeper, now, handler_ok>>

\* unsubscribe(agent_id): the agent gets a new empty list; a routing step that
\* is iterating over the old list keeps it
Unsubscribe(a) ==
    /\ subscribers[a] > 0
    /\ subscribers' = [subscribers EXCEPT ![a] = 0]
    /\ worker' = [p \in Priorities |->
                    IF worker[p].pc = "call" /\ worker[p].live /\ msg_recipient[worker[p].msg] = a
                      THEN [worker[p] EXCEPT !.live = FALSE, !.cbs = subscribers[a]]
                      ELSE worker[p]]
    /\ UNCHANGED <<running, bus_queues, pending_messages, acknowledged_messages,
                   failed_messages, message_history, msg_priority, msg_recipient,
                   published, sweeper, now, handler_ok>>

\* message m is inside a routing step
InRoute(m) == \E p \in Priorities : worker[p].pc = "call" /\ worker[p].msg = m

\* message m has reached its recipient's routing step: what a recipient acknowledges
Routed(m) == IsPending(pending_messages, m) \/ InRoute(m)

\* acknowledge(message_id, recipient_id, status)
Acknowledge(m, st) ==
    /\ Routed(m)
    /\ acknowledged_messages' = [acknowledged_messages EXCEPT ![m] = st]
    /\ pending_messages' = IF st = "processed" /\ IsPending(pending_messages, m)
                             THEN Untrack(pending_messages, m)
                             ELSE pending_messages
    /\ UNCHANGED <<running, bus_queues, subscribers, failed_messages, message_history,
                   msg_priority, msg_recipient, published, worker, sweeper, now, handler_ok>>

\* _process_queue: queue.get() returns m; _route_message(m) up to the first
\* handler's first suspension, or to its end when there is no subscriber
RouteStart(p) ==
    /\ worker[p].pc = "wait"
    /\ bus_queues[p] # <<>>
    /\ LET m == Head(bus_queues[p])
           n == subscribers[msg_recipient[m]]
       IN /\ bus_queues' = [bus_queues EXCEPT ![p] = Tail(@)]
          /\ pending_messages' = Track(pending_messages, m, now)
          /\ IF n = 0
               THEN /\ failed_messages' = _move_to_dead_letter(failed_messages, m, "No subscribers", now)
                    /\ worker' = [worker EXCEPT ![p] = AfterRoute]
               ELSE /\ worker' = [worker EXCEPT ![p] =
                                    [pc |-> "call", msg |-> m, idx |-> 0, ok |-> FALSE,
                                     live |-> TRUE, cbs |-> 0]]
                    /\ UNCHANGED failed_messages
    /\ UNCHANGED <<running, subscribers, acknowledged_messages, message_history,
                   msg_priority, msg_recipient, published, sweeper, now, handler_ok>>

\* the length of the callback list a routing step iterates over
Callbacks(w) == IF w.live THEN subscribers[msg_recipient[w.msg]] ELSE w.cbs

\* whether a failed delivery is published again
Retry(attempts) == attempts < max_delivery_attempts

\* the handler running for worker p returns or raises; then the next handler
\* starts, or _route_message finishes
HandlerDone(p, raised) ==
    /\ worker[p].pc = "call"
    /\ LET w == worker[p]
           m == w.msg
           ok == w.ok \/ ~ raised
       IN /\ handler_ok' = [handler_ok EXCEPT ![m] = @ \/ ~ raised]
          /\ IF w.idx + 1 < Callbacks(w)
               THEN /\ worker' = [worker EXCEPT ![p] = [w EXCEPT !.idx = @ + 1, !.ok = ok]]
                    /\ UNCHANGED <<bus_queues, pending_messages, failed_messages, message_history>>
               ELSE /\ worker' = [worker EXCEPT ![p] = AfterRoute]
                    /\ IF ~ IsPending(pending_messages, m)
                         \* KeyError, caught and logged by _process_queue
                         THEN UNCHANGED <<bus_queues, pending_messages, failed_messages, message_history>>
                         ELSE IF ok
                           THEN /\ pending_messages' =
                                     [pending_messages EXCEPT ![PendingIndex(pending_messages, m)].attempts = @ + 1]
                                /\ message_history' = Append(message_history, m)
                                /\ UNCHANGED <<bus_queues, failed_messages>>
                           ELSE IF Retry(pending_messages[PendingIndex(pending_messages, m)].attempts + 1)
                             THEN /\ bus_queues' = Published(bus_queues, m)
                                  /\ UNCHANGED <<pending_messages, failed_messages, message_history>>
                             ELSE /\ failed_messages' = _move_to_dead_letter(
                                         failed_messages, m, "Max delivery attempts exceeded", now)
                                  /\ UNCHANGED <<bus_queues, pending_messages, message_history>>
    /\ UNCHANGED <<running, subscribers, acknowledged_messages, msg_priority,
                   msg_recipient, published, sweeper, now>>

\* a worker after SweepInterval seconds: once the bus is stopped,
\* wait_for(queue.get(), timeout=1.0) has timed out and the loop has ended
TimedOut(w) == IF w.pc = "wait" /\ ~ running THEN Idle("exit") ELSE w

\* the sweeper's sleep of SweepInterval seconds ends; the clock of the model
\* starts with the bus and stops with the sweeper
Tick ==
    /\ now < MaxClock
    /\ sweeper = "sleep"
    /\ now' = now + SweepInterval
    /\ sweeper' = "due"
    /\ worker' = [p \in Priorities |-> TimedOut(worker[p])]
    /\ UNCHANGED <<running, bus_queues, subscribers, pending_messages,
                   acknowledged_messages, failed_messages, message_history,
                   msg_priority, msg_recipient, published, handler_ok>>

\* age > self.acknowledgment_timeout_seconds
Expired(e, t) == t - e.first_attempt > acknowledgment_timeout_seconds

RECURSIVE DeadLetterExpired(_, _, _)
\* the dead-letter list after the expired entries of pm were moved to it, in order
DeadLetterExpired(fm, pm, t) ==
    IF pm = <<>> THEN fm
    ELSE DeadLetterExpired(
           IF Expired(Head(pm), t)
             THEN _move_to_dead_letter(fm, Head(pm).message_id, "Acknowledgment timeout", t)
             ELSE fm,
           Tail(pm), t)

\* one pass of _cleanup_expired_messages after its sleep
Sweep ==
    /\ sweeper = "due"
    /\ failed_messages' = DeadLetterExpired(failed_messages, pending_messages, now)
    /\ pending_messages' = SelectSeq(pending_messages, LAMBDA e : ~ Expired(e, now))
    /\ sweeper' = IF running THEN "sleep" ELSE "exit"
    /\ UNCHANGED <<running, bus_queues, subscribers, acknowledged_messages,
                   message_history, msg_priority, msg_recipient, published,
                   worker, now, handler_ok>>

\* this step is a routing step of message m that invokes a handler
Dispatched(m) ==
    \E p \in Priorities :
        worker[p].pc = "wait" /\ worker'[p].pc = "call" /\ worker'[p].msg = m

\* delivery_attempts[m]: the number of routing steps that invoked the handlers
\* of m's recipient, counted up to MaxCounted
CountAttempts ==
    delivery_attempts' = [m \in Msgs |->
        IF Dispatched(m) THEN Min(MaxCounted, delivery_attempts[m] + 1)
        ELSE delivery_attempts[m]]

BusNext ==
    \/ Start
    \/ Stop
    \/ \E priority \in Priorities, recipient \in Agents : Publish(priority, recipient)
    \/ \E a \in Agents : Subscribe(a)
    \/ \E a \in Agents : Unsubscribe(a)
    \/ \E p \in Priorities : RouteStart(p)
    \/ \E p \in Priorities, raised \in BOOLEAN : HandlerDone(p, raised)

\* pending_since[m]: the time at which m entered pending_messages, for as
\* long as it stays there
TrackSince ==
    pending_since' = [m \in Msgs |->
        IF ~ IsPending(pending_messages', m) THEN NotPending
        ELSE IF IsPending(pending_messages, m) THEN pending_since[m]
        ELSE now]

\* the priorities the senders of the timed bus use
TimedPriorities == {"normal"}

\* the bus with its recipients acknowledging and the sweeper running;
\* subscribers come and stay
BusTimedNext ==
    \/ Start
    \/ Stop
    \/ \E priority \in TimedPriorities, recipient \in Agents : Publish(priority, recipient)
    \/ \E a \in Agents : Subscribe(a)
    \/ \E p \in Priorities : RouteStart(p)
    \/ \E p \in Priorities, raised \in BOOLEAN : HandlerDone(p, raised)
    \/ \E m \in Msgs, st \in AckStatuses : Acknowledge(m, st)
    \/ Tick
    \/ Sweep

(***************************************************************************)
(* --------------------------- MESSAGE ROUTER ---------------------------- *)
(* agent_registry is a defaultdict(list), agent_load a defaultdict(int):   *)
(* reading agent_load[a] for a missing key inserts a 0.  Agents are        *)
(* numbered from 1; 0 stands for None.                                     *)
(***************************************************************************)
VARIABLES agent_registry, agent_capabilities, agent_load, selected

routerVars == <<agent_registry, agent_capabilities, agent_load, selected>>

RouterAgents == 1..MaxAgents

AgentTypes == {"specialist", "planner"}

\* the "capabilities" lists agents declare, and the lists callers require
CapabilitySets == {{}, {"python"}}

RouterInit ==
    /\ agent_registry = [t \in AgentTypes |-> <<>>]
    /\ agent_capabilities = << >>
    /\ agent_load = << >>
    /\ selected = 0

\* the number of entries in the registry lists
RegisteredCount == Len(agent_registry["specialist"]) + Len(agent_registry["planner"])

\* d without the key a
Without(d, a) == [k \in DOMAIN d \ {a} |-> d[k]]

\* d with d[a] = v
With(d, a, v) == [k \in DOMAIN d \cup {a} |-> IF k = a THEN v ELSE d[k]]

\* list.remove(a): the first occurrence
RemoveFirst(list, a) ==
    LET i == CHOOSE i \in 1..Len(list) : list[i] = a /\ \A j \in 1..(i - 1) : list[j] # a
    IN  [k \in 1..(Len(list) - 1) |-> IF k < i THEN list[k] ELSE list[k + 1]]

register_agent(a, t, capabilities) ==
    /\ RegisteredCount < MaxRegistered
    /\ agent_registry' = [agent_registry EXCEPT ![t] = Append(@, a)]
    /\ agent_capabilities' = With(agent_capabilities, a, capabilities)
    /\ agent_load' = With(agent_load, a, 0)
    /\ UNCHANGED selected

unregister_agent(a, t) ==
    /\ agent_registry' =
          IF a \in SeqToSet(agent_registry[t])
            THEN [agent_registry EXCEPT ![t] = RemoveFirst(@, a)]
            ELSE agent_registry
    /\ agent_capabilities' = Without(agent_capabilities, a)
    /\ agent_load' = Without(agent_load, a)
    /\ UNCHANGED selected

\* self.agent_load[a]
LoadOf(a) == IF a \in DOMAIN agent_load THEN agent_load[a] ELSE 0

\* self.agent_capabilities.get(agent_id, {}).get("capabilities", [])
CapabilitiesOf(a) == IF a \in DOMAIN agent_capabilities THEN agent_capabilities[a] ELSE {}

\* the candidates of select_agent after the capability filter
Candidates(t, required) ==
    LET Qualifies(a) == required \subseteq CapabilitiesOf(a)
    IN  IF required # {} THEN SelectSeq(agent_registry[t], Qualifies) ELSE agent_registry[t]

\* the last candidate among those with the lowest load
last_least_loaded(candidates) ==
    LET i == CHOOSE i \in 1..Len(candidates) :
                 /\ \A j \in 1..Len(candidates) : LoadOf(candidates[i]) <= LoadOf(candidates[j])
                 /\ \A j \in (i + 1)..Len(candidates) :
                        LoadOf(candidates[i]) < LoadOf(candidates[j])
    IN  candidates[i]

\* min(candidates, key=lambda a: self.agent_load[a]): the first minimum
least_loaded(candidates) ==
    LET i == CHOOSE i \in 1..Len(candidates) :
                 /\ \A j \in 1..Len(candidates) : LoadOf(candidates[i]) <= LoadOf(candidates[j])
                 /\ \A j \in 1..(i - 1) : LoadOf(candidates[i]) < LoadOf(candidates[j])
    IN  candidates[i]

select_agent(t, required, load_balance) ==
    /\ selected' =
          IF Candidates(t, required) = <<>> THEN 0
          ELSE IF load_balance THEN least_loaded(Candidates(t, required))
          ELSE Candidates(t, required)[1]
    /\ agent_load' =
          IF load_balance
            THEN [a \in DOMAIN agent_load \cup SeqToSet(Candidates(t, required)) |-> LoadOf(a)]
            ELSE agent_load
    /\ UNCHANGED <<agent_registry, agent_capabilities>>

increment_agent_load(a) ==
    /\ LoadOf(a) < MaxLoad
    /\ agent_load' = With(agent_load, a, LoadOf(a) + 1)
    /\ UNCHANGED <<agent_registry, agent_capabilities, selected>>

\* the counter after a decrement without the test
decremented_unchecked(n) == n - 1

\* if self.agent_load[agent_id] > 0: self.agent_load[agent_id] -= 1
decremented(n) == IF n > 0 THEN n - 1 ELSE n

decrement_agent_load(a) ==
    /\ agent_load' = With(agent_load, a, decremented(LoadOf(a)))
    /\ UNCHANGED <<agent_registry, agent_capabilities, selected>>

\* the calls made on the router; load calls are made for tracked counters
RouterNext ==
    \/ \E a \in RouterAgents, t \in AgentTypes, c \in CapabilitySets : register_agent(a, t, c)
    \/ \E a \in RouterAgents, t \in AgentTypes : unregister_agent(a, t)
    \/ \E t \in AgentTypes, r \in CapabilitySets, lb \in BOOLEAN : select_agent(t, r, lb)
    \/ \E a \in DOMAIN agent_load : increment_agent_load(a)
    \/ \E a \in DOMAIN agent_load : decrement_agent_load(a)

(***************************************************************************)
(* ------------------------- DECISION ENGINE ----------------------------- *)
(* phase_gate_decision is a pure function of the reviewed phase, the       *)
(* phase outputs and the ledger's record.  The "type" of an output is      *)
(* modelled by the set of checked words that occur in str(type).lower():   *)
(* the names of the required deliverables, "documentation" and "test".     *)
(* An output without a "type" key has str(None).lower() = "none", which    *)
(* contains none of them.                                                  *)
(***************************************************************************)
VARIABLES gate_input, gate_result, phase_outputs

gateVars == <<gate_input, gate_result>>

QUALITY_THRESHOLD == 70

MIN_TOKENS_FOR_NEXT_PHASE == 5000

\* _get_required_deliverables: deliverables.get(phase, [])
_get_required_deliverables(p) ==
    CASE p = "initiation" -> <<"feasibility_assessment", "scope_definition",
                               "stakeholder_identification", "initial_risk_assessment">>
      [] p = "planning"   -> <<"project_plan", "resource_allocation", "schedule",
                               "risk_management_plan">>
      [] p = "execution"  -> <<"implementation", "code_deliverables", "documentation">>
      [] p = "monitoring" -> <<"progress_reports", "quality_metrics", "issue_logs">>
      [] p = "closure"    -> <<"final_deliverables", "lessons_learned",
                               "project_closure_report">>
      [] OTHER            -> <<>>

\* the type of an output that has no "type" key
Untyped == {}

\* sum(1 for req in required if any(req in str(ot).lower() for ot in output_types))
present_count(types, required) ==
    Cardinality({i \in 1..Len(required) : \E j \in 1..Len(types) : required[i] \in types[j]})

\* present_count >= len(required_deliverables) * 0.7
_check_deliverables_complete(outputs, required) ==
    10 * present_count(outputs.deliverables, required) >= 7 * Len(required)

\* _assess_quality: base 75, +10 documentation, +10 tests, -10 per critical
\* issue, clamped to [0, 100]; 0 without deliverables
_assess_quality(outputs) ==
    LET ds == outputs.deliverables
        has_documentation == \E j \in 1..Len(ds) : "documentation" \in ds[j]
        has_tests == \E j \in 1..Len(ds) : "test" \in ds[j]
        critical_issues == {i \in 1..Len(outputs.issues) : outputs.issues[i].severity = "critical"}
        score == 75 + (IF has_documentation THEN 10 ELSE 0)
                    + (IF has_tests THEN 10 ELSE 0)
                    - 10 * Cardinality(critical_issues)
    IN  IF ds = <<>> THEN 0 ELSE Min(Max(score, 0), 100)

\* critical_risks = [r for r in risks if severity == 'critical' and not mitigated]
critical_risks(rs) ==
    {i \in 1..Len(rs) : rs[i].severity = "critical" /\ ~ rs[i].mitigated}

\* a blocker check that lets every blocker pass
no_critical_blockers(bs) == {}

\* critical_blockers = [b for b in blockers if severity == 'critical' and status != 'resolved']
critical_blockers(bs) ==
    {i \in 1..Len(bs) : bs[i].severity = "critical" /\ bs[i].status # "resolved"}

\* a resource check that lets every balance pass
tokens_always_sufficient(t) == FALSE

\* tokens_remaining < self.MIN_TOKENS_FOR_NEXT_PHASE
tokens_insufficient(t) == t < MIN_TOKENS_FOR_NEXT_PHASE

\* the final mapping with the lower limits excluded
decision_for_exclusive(score) ==
    IF score > 90 THEN "GO" ELSE IF score > 70 THEN "CONDITIONAL_GO" ELSE "NO_GO"

\* score >= 90: GO; score >= 70: CONDITIONAL_GO; else NO_GO
decision_for(score) ==
    IF score >= 90 THEN "GO" ELSE IF score >= 70 THEN "CONDITIONAL_GO" ELSE "NO_GO"

\* a hard stop: DecisionResult(NO_GO, rationale, confidence=1.0) without a
\* "score" in its metadata
HardStop(rationale, action) ==
    [decision |-> "NO_GO", rationale |-> rationale, confidence |-> 100,
     required_actions |-> <<action>>, has_score |-> FALSE, score |-> 0]

\* phase_gate_decision(phase, phase_outputs, project_state); confidence is
\* in hundredths
phase_gate_decision(p, outputs, state) ==
    LET required == _get_required_deliverables(p)
        low_quality == _assess_quality(outputs) < QUALITY_THRESHOLD
        risky == critical_risks(state.risks) # {}
        score == 100 - (IF low_quality THEN 30 ELSE 0) - (IF risky THEN 25 ELSE 0)
        actions == (IF low_quality THEN <<"Improve quality">> ELSE <<>>)
                   \o (IF risky THEN <<"Mitigate all critical risks">> ELSE <<>>)
    IN  IF ~ _check_deliverables_complete(outputs, required)
          THEN HardStop("Missing required deliverables",
                        "Complete all required deliverables before proceeding")
        ELSE IF critical_blockers(state.blockers) # {}
          THEN HardStop("Critical blockers must be resolved",
                        "Resolve all critical blockers")
        ELSE IF tokens_insufficient(state.tokens_remaining)
          THEN HardStop("Insufficient tokens remaining",
                        "Request additional token budget or reduce scope")
        ELSE [decision |-> decision_for(score),
              rationale |-> CASE decision_for(score) = "GO" -> "All criteria met, proceed to next phase"
                              [] decision_for(score) = "CONDITIONAL_GO" -> "Proceed with conditions"
                              [] OTHER -> "Quality insufficient",
              confidence |-> Min(score, 100),
              required_actions |-> actions, has_score |-> TRUE, score |-> score]

\* ---- the inputs phase_gate_decision is applied to ----
GatePhases == Phases \cup {"unknown"}

\* output types: none, one required deliverable each, or documentation and tests
OutputTypes(p) ==
    {Untyped} \cup {{_get_required_deliverables(p)[i]} : i \in 1..Len(_get_required_deliverables(p))}
              \cup {{"documentation", "test"}}

SeqsUpTo(S, n) == UNION {[1..k -> S] : k \in 0..n}

IssueLists ==
    {<<>>,
     <<CriticalIssue>>,
     <<CriticalIssue, [severity |-> "low", status |-> "open"], CriticalIssue, CriticalIssue>>}

RiskLists == {<<>>, <<CriticalRisk>>, <<[severity |-> "critical", mitigated |-> TRUE]>>}

BlockerLists ==
    {<<>>,
     <<[severity |-> "critical", status |-> "open"]>>,
     <<[severity |-> "critical", status |-> "resolved"]>>,
     <<[severity |-> "low", status |-> "open"], [severity |-> "critical", status |-> "open"]>>}

Balances == {MIN_TOKENS_FOR_NEXT_PHASE - 1, MIN_TOKENS_FOR_NEXT_PHASE}

NoResult == HardStop("none", "none")

GateInit ==
    /\ \E p \in GatePhases :
         gate_input \in [phase : {p},
                         deliverables : SeqsUpTo(OutputTypes(p), MaxOutputs),
                         issues : IssueLists, risks : RiskLists,
                         blockers : BlockerLists, tokens_remaining : Balances]
    /\ gate_result = NoResult

\* the variables of the engine in a specification about something else
GateRest ==
    /\ gate_input = [phase |-> "unknown", deliverables |-> <<>>, issues |-> <<>>,
                     risks |-> <<>>, blockers |-> <<>>, tokens_remaining |-> 0]
    /\ gate_result = NoResult

\* result = engine.phase_gate_decision(phase, phase_outputs, project_state)
Decide ==
    /\ gate_result = NoResult
    /\ gate_result' = phase_gate_decision(
                          gate_input.phase,
                          [deliverables |-> gate_input.deliverables, issues |-> gate_input.issues],
                          [risks |-> gate_input.risks, blockers |-> gate_input.blockers,
                           tokens_remaining |-> gate_input.tokens_remaining])
    /\ UNCHANGED gate_input

(***************************************************************************)
(* --------------------------- REQUEST INTAKE ---------------------------- *)
(* accept_request reads the request text through substring tests on the    *)
(* text and on text.lower(), through len(text.split()) and through         *)
(* "?" in text.  A request is a sequence of whitespace-separated words; a  *)
(* word is modelled by the checked substrings it contains as written       *)
(* (exact) and after lower() (lower).  Keywords that contain a space are   *)
(* not in the vocabulary.                                                  *)
(***************************************************************************)
VARIABLES intake_input, intake_result

intakeVars == <<intake_input, intake_result>>

SUPPORTED_TYPES == {"frontend", "backend", "ml", "analytics", "fullstack", "research"}

\* "a"
WordA == [exact |-> {}, lower |-> {}]

\* "build": it contains "ui"
WordBuild == [exact |-> {"build", "ui"}, lower |-> {"build", "ui"}]

\* "Malware,"
WordMalware == [exact |-> {}, lower |-> {"malware"}]

\* "complex"
WordComplex == [exact |-> {"complex"}, lower |-> {"complex"}]

\* "why?"
WordWhy == [exact |-> {"?"}, lower |-> {"?"}]

\* "research"
WordResearch == [exact |-> {"research"}, lower |-> {"research"}]

Words == {WordA, WordBuild, WordMalware, WordComplex, WordWhy, WordResearch}

\* any(keyword in request.lower() for keyword in keywords)
AnyInLower(request, keywords) ==
    \E i \in 1..Len(request) : request[i].lower \cap keywords # {}

\* any(keyword in request for keyword in keywords), without lower()
AnyInExact(request, keywords) ==
    \E i \in 1..Len(request) : request[i].exact \cap keywords # {}

_parse_intent(request) ==
    IF AnyInLower(request, {"create", "build", "generate", "develop"}) THEN "create_project"
    ELSE IF AnyInLower(request, {"enhance", "improve", "optimize", "refactor"}) THEN "enhance_project"
    ELSE IF AnyInLower(request, {"research", "analyze", "investigate", "study"}) THEN "research"
    ELSE IF AnyInLower(request, {"fix", "debug", "solve", "resolve"}) THEN "fix_issue"
    ELSE "unknown"

\* context.get("project_type") is "" when the key is absent or falsy
_detect_project_type(request, context) ==
    IF context.project_type # "" THEN context.project_type
    ELSE IF AnyInLower(request, {"react", "next.js", "vue", "angular", "frontend", "ui", "website"})
      THEN "frontend"
    ELSE IF AnyInLower(request, {"api", "backend", "server", "express", "fastapi", "flask"})
      THEN "backend"
    ELSE IF AnyInLower(request, {"ml", "model", "pytorch", "tensorflow"}) THEN "ml"
    ELSE IF AnyInLower(request, {"analytics", "ggplot", "tidyverse", "shiny"}) THEN "analytics"
    ELSE IF AnyInLower(request, {"fullstack", "full-stack"}) THEN "fullstack"
    ELSE IF AnyInLower(request, {"research", "study", "analyze", "investigate"}) THEN "research"
    ELSE "unknown"

malicious_keywords ==
    {"malware", "virus", "ransomware", "keylogger", "exploit", "ddos", "botnet", "backdoor"}

\* the deny-list test on the text as written
_is_safe_case_sensitive(request) == ~ AnyInExact(request, malicious_keywords)

_is_safe(request) == ~ AnyInLower(request, malicious_keywords)

\* len(request.split()) < 5 or "?" in request
_is_ambiguous(request) == Len(request) < 5 \/ AnyInExact(request, {"?"})

\* only the question about the project type
_type_question_only(request, context) ==
    IF context.project_type = "" THEN <<"What type of project is this?">> ELSE <<>>

_generate_clarification_questions(request, context) ==
    LET questions ==
            (IF context.project_type = "" THEN <<"What type of project is this?">> ELSE <<>>)
         \o (IF Len(request) < 10 THEN <<"Could you provide more details about the requirements?">>
                                  ELSE <<>>)
         \o (IF AnyInExact(request, {"?"}) THEN <<"Please rephrase your request as a statement">>
                                           ELSE <<>>)
    IN  IF questions # <<>> THEN questions
        ELSE <<"Could you provide more details about what you'd like to accomplish?">>

\* base_tokens.get(project_type, 15000)
base_tokens(project_type) ==
    CASE project_type = "frontend"  -> 15000
      [] project_type = "backend"   -> 20000
      [] project_type = "ml"        -> 30000
      [] project_type = "analytics" -> 25000
      [] project_type = "fullstack" -> 40000
      [] project_type = "research"  -> 10000
      [] OTHER                      -> 15000

\* _estimate_resources(...)["tokens"]: int(tokens * 1.5) with a complexity keyword
_estimate_resources(request, project_type) ==
    IF AnyInLower(request, {"complex", "advanced", "comprehensive", "detailed", "multiple"})
      THEN (3 * base_tokens(project_type)) \div 2
      ELSE base_tokens(project_type)

\* preferences.get("max_budget_tokens", 50000)
max_budget(preferences) ==
    IF preferences.has_budget THEN preferences.max_budget_tokens ELSE 50000

\* the checks with feasibility moved to the front
checks_feasibility_first == <<"feasibility", "safety", "ambiguity", "support">>

\* the order of the checks in accept_request
checks_in_order == <<"safety", "ambiguity", "feasibility", "support">>

\* the condition under which a check returns
CheckFails(check, request, context, preferences) ==
    CASE check = "safety"      -> ~ _is_safe(request)
      [] check = "ambiguity"   -> _is_ambiguous(request)
      [] check = "feasibility" ->
            _estimate_resources(request, _detect_project_type(request, context))
                > max_budget(preferences)
      [] check = "support"     -> _detect_project_type(request, context) \notin SUPPORTED_TYPES

\* the DecisionResult a failing check returns; confidence is in hundredths
CheckOutcome(check, request, context) ==
    CASE check = "safety" ->
            [decision |-> "reject", rationale |-> "Request violates safety policies",
             confidence |-> 100, required_actions |-> <<>>]
      [] check = "ambiguity" ->
            [decision |-> "clarify", rationale |-> "Request requires clarification",
             confidence |-> 80,
             required_actions |-> _generate_clarification_questions(request, context)]
      [] check = "feasibility" ->
            [decision |-> "reject", rationale |-> "Exceeds token budget",
             confidence |-> 90, required_actions |-> <<>>]
      [] check = "support" ->
            [decision |-> "reject", rationale |-> "Project type not supported",
             confidence |-> 100, required_actions |-> <<>>]

accept_request(request, context, preferences) ==
    LET failing == {i \in 1..Len(checks_in_order) :
                        CheckFails(checks_in_order[i], request, context, preferences)}
        first == CHOOSE i \in failing : \A j \in failing : i <= j
    IN  IF failing # {}
          THEN CheckOutcome(checks_in_order[first], request, context)
          ELSE [decision |-> "accept", rationale |-> "Request approved for processing",
                confidence |-> 95, required_actions |-> <<>>]

\* ---- the inputs accept_request is applied to ----
Contexts == {[project_type |-> ""], [project_type |-> "fullstack"], [project_type |-> "mobile"]}

Preferences ==
    {[has_budget |-> FALSE, max_budget_tokens |-> 0],
     [has_budget |-> TRUE, max_budget_tokens |-> 15000],
     [has_budget |-> TRUE, max_budget_tokens |-> 1000]}

NoIntake == [decision |-> "none", rationale |-> "none", confidence |-> 0,
             required_actions |-> <<>>]

IntakeInit ==
    /\ intake_input \in [request : SeqsUpTo(Words, MaxWords), context : Contexts,
                         preferences : Preferences]
    /\ intake_result = NoIntake

\* the intake variables in a specification about something else
IntakeRest ==
    /\ intake_input = [request |-> <<>>, context |-> [project_type |-> ""],
                       preferences |-> [has_budget |-> FALSE, max_budget_tokens |-> 0]]
    /\ intake_result = NoIntake

\* result = engine.accept_request(user_request, context, preferences)
Accept ==
    /\ intake_result = NoIntake
    /\ intake_result' = accept_request(intake_input.request, intake_input.context,
                                       intake_input.preferences)
    /\ UNCHANGED intake_input

(***************************************************************************)
(* ---------------------- PHASE GATE REVIEW ------------------------------ *)
(* CoordinatorAgent.conduct_phase_gate_review applies the decision engine  *)
(* to the ledger and records the outcome in it.                            *)
(***************************************************************************)
NoOutputs == [p \in Phases |-> <<>>]

\* a type string that names every required deliverable of phase p
Checklist(p) ==
    {_get_required_deliverables(p)[i] : i \in 1..Len(_get_required_deliverables(p))}

\* the outputs added to the ledger for phase p: the coordinator's own entries
\* carry no "type" key
ReviewOutputTypes(p) == {Untyped, Checklist(p)}

\* preferences["max_budget_tokens"] of the reviewed project
ReviewBudget == 10000

OutputCount == Len(phase_outputs["initiation"]) + Len(phase_outputs["planning"])
                 + Len(phase_outputs["execution"]) + Len(phase_outputs["monitoring"])
                 + Len(phase_outputs["closure"])

\* ProjectState(..., status="in_progress", phase="initiation", tokens_budget=...)
ReviewInit ==
    /\ LedgerInit
    /\ status = "in_progress"
    /\ tokens_budget = ReviewBudget
    /\ phase_outputs = NoOutputs

add_phase_output(p, type) ==
    /\ OutputCount < MaxPhaseOutputs
    /\ phase_outputs' = [phase_outputs EXCEPT ![p] = Append(@, type)]
    /\ UNCHANGED ledgerVars

\* asdict(self): the fields of the ledger as a record
to_dict ==
    [status |-> status, phase |-> phase, tokens_budget |-> tokens_budget,
     tokens_used |-> tokens_used, tokens_remaining |-> tokens_remaining,
     api_calls |-> api_calls, phase_outputs |-> phase_outputs,
     deliverables |-> deliverables, risks |-> risks, issues |-> issues,
     blockers |-> blockers, go_decisions |-> go_decisions]

\* the decision conduct_phase_gate_review obtains for phase p
ReviewResult(p) ==
    phase_gate_decision(p,
                        [deliverables |-> phase_outputs[p], risks |-> risks, issues |-> issues],
                        to_dict)

\* conduct_phase_gate_review(project_id, phase); score = metadata.get("score", 0)
conduct_phase_gate_review(p) ==
    /\ record_phase_gate_decision(p, ReviewResult(p).decision,
                                  IF ReviewResult(p).has_score THEN ReviewResult(p).score ELSE 0)
    /\ UNCHANGED phase_outputs

\* the ledger calls made between two reviews
LedgerCalls ==
    \/ add_risk(CriticalRisk)
    \/ add_issue(CriticalIssue)
    \/ \E sev \in Severities : add_blocker(sev)
    \/ \E i \in 1..(MaxBlockers + 1) : resolve_blocker(i)
    \/ \E t \in TokenInputs(tokens_budget) : update_token_usage(t)

ReviewNext ==
    \/ LedgerCalls /\ UNCHANGED phase_outputs
    \/ \E t \in ReviewOutputTypes(phase) : add_phase_output(phase, t)
    \/ \E p \in ReviewedPhases(phase) : conduct_phase_gate_review(p)

(***************************************************************************)
(* ----------------------------- CHECKPOINT ------------------------------ *)
(* to_dict is dataclasses.asdict, which builds new lists and dicts all the *)
(* way down; from_dict passes the values of the record to the constructor, *)
(* which keeps them by reference.  aliases is the set of container fields  *)
(* of the restored ledger that are the very objects of the original: a     *)
(* write through one of them is a write to the original.                   *)
(***************************************************************************)
VARIABLES restored, aliases, calls

checkpointVars == <<restored, aliases, calls>>

\* no ledger has been restored
NoLedger == [status |-> "none"]

ContainerFields == {"phase_outputs", "deliverables", "risks", "issues", "blockers", "go_decisions"}

\* the containers a copy of self.__dict__ would share with the ledger
SharedByShallowCopy == ContainerFields

\* the containers the result of asdict shares with the ledger
SharedByAsdict == {}

\* cls(**data): every field is taken from the record
from_dict(data) ==
    [status |-> data.status, phase |-> data.phase, tokens_budget |-> data.tokens_budget,
     tokens_used |-> data.tokens_used, tokens_remaining |-> data.tokens_remaining,
     api_calls |-> data.api_calls, phase_outputs |-> data.phase_outputs,
     deliverables |-> data.deliverables, risks |-> data.risks, issues |-> data.issues,
     blockers |-> data.blockers, go_decisions |-> data.go_decisions]

CheckpointInit ==
    /\ restored = NoLedger
    /\ aliases = {}
    /\ calls = 0

\* a mutator call on the original ledger before the checkpoint
OriginalCall ==
    /\ restored = NoLedger
    /\ calls < MaxCalls
    /\ calls' = calls + 1
    /\ \/ LedgerCalls /\ UNCHANGED phase_outputs
       \/ add_deliverable /\ UNCHANGED phase_outputs
       \/ \E t \in ReviewOutputTypes(phase) : add_phase_output(phase, t)
       \/ \E d \in Decisions : record_phase_gate_decision(phase, d, ScoreOf(d))
            /\ UNCHANGED phase_outputs
    /\ UNCHANGED <<restored, aliases>>

\* restored = ProjectState.from_dict(state.to_dict())
Checkpoint ==
    /\ restored = NoLedger
    /\ restored' = from_dict(to_dict)
    /\ aliases' = SharedByAsdict
    /\ UNCHANGED <<ledgerVars, phase_outputs, calls>>

\* the original's container after the restored ledger's container became v
Through(field, own, v) == IF field \in aliases THEN v ELSE own

\* restored.add_blocker(...)
restored_add_blocker(sev) ==
    /\ Len(restored.blockers) < MaxBlockers
    /\ restored' = [restored EXCEPT
                      !.blockers = Append(@, [severity |-> sev, status |-> "open"]),
                      !.status = "blocked"]
    /\ blockers' = Through("blockers", blockers, restored'.blockers)
    /\ UNCHANGED <<status, phase, tokens_budget, tokens_used, tokens_remaining, api_calls,
                   deliverables, risks, issues, go_decisions, phase_outputs>>

\* restored.resolve_blocker(i - 1)
restored_resolve_blocker(i) ==
    /\ 1 <= i /\ i <= Len(restored.blockers)
    /\ restored' = [restored EXCEPT
                      !.blockers = [@ EXCEPT ![i].status = "resolved"],
                      !.status = IF Unresolved([restored.blockers EXCEPT ![i].status = "resolved"]) = {}
                                   THEN "in_progress" ELSE @]
    /\ blockers' = Through("blockers", blockers, restored'.blockers)
    /\ UNCHANGED <<status, phase, tokens_budget, tokens_used, tokens_remaining, api_calls,
                   deliverables, risks, issues, go_decisions, phase_outputs>>

\* restored.add_risk(...)
restored_add_risk ==
    /\ Len(restored.risks) < MaxItems
    /\ restored' = [restored EXCEPT !.risks = Append(@, CriticalRisk)]
    /\ risks' = Through("risks", risks, restored'.risks)
    /\ UNCHANGED <<status, phase, tokens_budget, tokens_used, tokens_remaining, api_calls,
                   deliverables, issues, blockers, go_decisions, phase_outputs>>

\* restored.record_phase_gate_decision(restored.phase, decision, score, notes)
restored_record_phase_gate_decision(decision) ==
    /\ restored' = [restored EXCEPT
                      !.go_decisions = [@ EXCEPT ![restored.phase] =
                                           [decision |-> decision, score |-> ScoreOf(decision)]],
                      !.phase = IF Advances(decision) THEN NextPhase(@) ELSE @,
                      !.status = IF Advances(decision) THEN NextStatus(restored.phase, @) ELSE @]
    /\ go_decisions' = Through("go_decisions", go_decisions, restored'.go_decisions)
    /\ UNCHANGED <<status, phase, tokens_budget, tokens_used, tokens_remaining, api_calls,
                   deliverables, risks, issues, blockers, phase_outputs>>

\* restored.update_token_usage(tokens, cost)
restored_update_token_usage(tokens) ==
    /\ restored.api_calls < MaxApiCalls
    /\ restored' = [restored EXCEPT
                      !.tokens_used = @ + tokens,
                      !.tokens_remaining = Remaining(restored.tokens_budget,
                                                     restored.tokens_used + tokens),
                      !.api_calls = @ + 1]
    /\ UNCHANGED <<ledgerVars, phase_outputs>>

\* a mutator call on the restored ledger
RestoredCall ==
    /\ restored # NoLedger
    /\ calls < MaxCalls
    /\ calls' = calls + 1
    /\ \/ \E sev \in Severities : restored_add_blocker(sev)
       \/ \E i \in 1..MaxBlockers : restored_resolve_blocker(i)
       \/ restored_add_risk
       \/ \E d \in Decisions : restored_record_phase_gate_decision(d)
       \/ \E t \in TokenInputs(restored.tokens_budget) : restored_update_token_usage(t)
    /\ UNCHANGED aliases

CheckpointNext == OriginalCall \/ Checkpoint \/ RestoredCall

(***************************************************************************)
(* -------------------------- CIRCUIT BREAKER ---------------------------- *)
(* BaseAgent.process_task with its retry loop, for one agent and one       *)
(* caller that awaits each call before the next.  The call suspends at     *)
(* "await self._execute_task(...)" and at "await asyncio.sleep(...)";      *)
(* reset_circuit_breaker is synchronous and can run at either point.       *)
(***************************************************************************)
VARIABLES circuit_breaker_failures, task, last_result, process_calls

breakerVars == <<circuit_breaker_failures, task, last_result, process_calls>>

max_retries == 3

circuit_breaker_threshold == 5

\* no call of process_task is under way
NoTask == [pc |-> "idle", attempt |-> 0]

BreakerInit ==
    /\ circuit_breaker_failures = 0
    /\ task = NoTask
    /\ last_result = "none"
    /\ process_calls = 0

\* get_status()["circuit_breaker_open"]
circuit_breaker_open == circuit_breaker_failures >= circuit_breaker_threshold

\* process_task up to its first suspension: the breaker is looked at here and
\* nowhere else; a closed breaker enters the retry loop and invokes the
\* executor with attempt = 0
process_task ==
    /\ task.pc = "idle"
    /\ process_calls < MaxProcessCalls
    /\ process_calls' = process_calls + 1
    /\ IF circuit_breaker_open
       THEN /\ last_result' = "circuit_open"
            /\ task' = NoTask
       ELSE /\ last_result' = "pending"
            /\ task' = [pc |-> "execute", attempt |-> 0]
    /\ UNCHANGED circuit_breaker_failures

\* _execute_task returns a result: the count is reset and the result returned
_execute_task_returns ==
    /\ task.pc = "execute"
    /\ circuit_breaker_failures' = 0
    /\ last_result' = "returned"
    /\ task' = NoTask
    /\ UNCHANGED process_calls

\* _execute_task raises: the count goes up by one; the loop sleeps before
\* the next attempt, or gives up after the last one
_execute_task_raises ==
    /\ task.pc = "execute"
    /\ circuit_breaker_failures' = circuit_breaker_failures + 1
    /\ IF task.attempt < max_retries - 1
       THEN /\ task' = [task EXCEPT !.pc = "sleep"]
            /\ last_result' = last_result
       ELSE /\ task' = NoTask
            /\ last_result' = "failed"
    /\ UNCHANGED process_calls

\* the back-off sleep ends and the loop invokes the executor again
retry ==
    /\ task.pc = "sleep"
    /\ task' = [pc |-> "execute", attempt |-> task.attempt + 1]
    /\ UNCHANGED <<circuit_breaker_failures, last_result, process_calls>>

reset_circuit_breaker ==
    /\ circuit_breaker_failures' = 0
    /\ UNCHANGED <<task, last_result, process_calls>>

BreakerNext ==
    \/ process_task
    \/ _execute_task_returns
    \/ _execute_task_raises
    \/ retry
    \/ reset_circuit_breaker


(***************************************************************************)
(* ------------------------ ESCALATION HANDLING -------------------------- *)
(* handle_escalation is a pure function of the escalation dict, which is   *)
(* modelled as a function from its keys to strings; the response carries   *)
(* the dict it was given.                                                  *)
(***************************************************************************)
VARIABLES esc_input, esc_result

escalationVars == <<esc_input, esc_result>>

\* dict.get(key, default)
get(dict, key, default) == IF key \in DOMAIN dict THEN dict[key] ELSE default

\* the value of escalation.get('type') when the key is missing
None == "<None>"

\* a safety concern that is only terminated when its severity is critical
safety_by_severity(escalation, severity) ==
    IF severity = "critical"
      THEN [action |-> "terminate_and_report",
            message |-> "Safety concern detected, terminating immediately",
            escalation |-> escalation, priority |-> "critical"]
      ELSE [action |-> "ask_user_for_decision",
            message |-> "Safety concern detected, terminating immediately",
            escalation |-> escalation]

\* the branch of handle_escalation for the type safety_concern
safety_concern(escalation, severity) ==
    [action |-> "terminate_and_report",
     message |-> "Safety concern detected, terminating immediately",
     escalation |-> escalation, priority |-> "critical"]

handle_escalation(escalation) ==
    LET escalation_type == get(escalation, "type", None)
        severity == get(escalation, "severity", "medium")
    IN CASE escalation_type = "technical_blocker" ->
              IF severity = "critical"
                THEN [action |-> "pause_and_ask_user",
                      message |-> "Critical technical blocker requires user guidance",
                      escalation |-> escalation]
                ELSE [action |-> "try_alternative_approach",
                      message |-> "Delegating to alternative specialist agent",
                      escalation |-> escalation]
         [] escalation_type = "resource_exhaustion" ->
              [action |-> "request_budget_increase_or_terminate",
               message |-> "Resource budget exhausted, requesting increase or terminating",
               escalation |-> escalation]
         [] escalation_type = "clarification_needed" ->
              [action |-> "ask_user_for_clarification",
               message |-> "Agent requires user clarification",
               escalation |-> escalation]
         [] escalation_type = "quality_failure" ->
              [action |-> "retry_with_alternative",
               message |-> "Quality check failed, retrying with different approach",
               escalation |-> escalation]
         [] escalation_type = "safety_concern" -> safety_concern(escalation, severity)
         [] OTHER ->
              [action |-> "ask_user_for_decision",
               message |-> <<"Unknown escalation type: ", escalation_type>>,
               escalation |-> escalation]

\* the escalation types the function names
KnownEscalations ==
    {"technical_blocker", "resource_exhaustion", "clarification_needed",
     "quality_failure", "safety_concern"}

\* a key that the dict does not have
Absent == "<absent>"

\* the dict with the given values; Absent leaves the key out
EscalationOf(type, severity, description) ==
    LET Entry(key, value) == [k \in (IF value = Absent THEN {} ELSE {key}) |-> value]
    IN Entry("type", type) @@ Entry("severity", severity) @@ Entry("description", description)

Escalations ==
    {EscalationOf(t, s, d) :
        t \in KnownEscalations \cup {"deadline_missed", "SAFETY_CONCERN", Absent},
        s \in {"critical", "high", "medium", "low", "CRITICAL", Absent},
        d \in {"Cannot access database", Absent}}

NoResponse == [action |-> "none"]

EscalationInit ==
    /\ esc_input \in Escalations
    /\ esc_result = NoResponse

EscalationRest ==
    /\ esc_input = EscalationOf(Absent, Absent, Absent)
    /\ esc_result = NoResponse

Escalate ==
    /\ esc_result = NoResponse
    /\ esc_result' = handle_escalation(esc_input)
    /\ UNCHANGED esc_input


(***************************************************************************)
(* ---------------------------- HEALTH CHECK ----------------------------- *)
(* is_healthy() called on a ledger that the mutators have filled: issues   *)
(* and blockers of either severity, resolved or not, and a balance on      *)
(* either side of a tenth of the budget.                                   *)
(***************************************************************************)
VARIABLES health_result

healthVars == <<health_result>>

IssueKinds ==
    {CriticalIssue,
     [severity |-> "critical", status |-> "resolved"],
     [severity |-> "low", status |-> "open"]}

BlockerKinds ==
    {[severity |-> "critical", status |-> "open"],
     [severity |-> "critical", status |-> "resolved"],
     [severity |-> "low", status |-> "open"]}

\* the tokens charged to a ledger with budget b: nothing yet, up to and past
\* nine tenths of the budget, and more than the budget
ChargedTokens(b) == {0, (9 * b) \div 10, (9 * b) \div 10 + 1, b + 1}

HealthRest == health_result = "none"

HealthInit ==
    /\ phase = "initiation"
    /\ tokens_budget \in Budgets
    /\ tokens_used \in ChargedTokens(tokens_budget)
    /\ tokens_remaining = IF tokens_used = 0 THEN DefaultTokensRemaining
                          ELSE Remaining(tokens_budget, tokens_used)
    /\ api_calls = IF tokens_used = 0 THEN 0 ELSE 1
    /\ deliverables = <<>>
    /\ risks = <<>>
    /\ issues \in SeqsUpTo(IssueKinds, MaxIssues)
    /\ blockers \in SeqsUpTo(BlockerKinds, MaxBlockers)
    /\ status = IF Unresolved(blockers) = {} THEN "in_progress" ELSE "blocked"
    /\ go_decisions = [p \in Phases |-> NoDecision]
    /\ health_result = "none"

\* a call of is_healthy(), which assigns nothing
CheckHealth ==
    /\ health_result = "none"
    /\ health_result' = IF is_healthy THEN "True" ELSE "False"
    /\ UNCHANGED ledgerVars


(***************************************************************************)
(* --------------------------- QUALITY SCORE ----------------------------- *)
(* _assess_quality applied to phase outputs whose deliverables carry any   *)
(* combination of the two words it looks for and whose issues are          *)
(* critical or not, resolved or not.                                       *)
(***************************************************************************)
VARIABLES quality_input, quality_result

qualityVars == <<quality_input, quality_result>>

\* deliverable types by the words of _assess_quality they contain
QualityTypes == SUBSET {"documentation", "test"}

\* enough critical issues to take the score below 0
ManyCritical == [i \in 1..(MaxIssues + 6) |-> CriticalIssue]

\* quality_result before _assess_quality has returned
NoQuality == -1

QualityRest ==
    /\ quality_input = [deliverables |-> <<>>, issues |-> <<>>]
    /\ quality_result = NoQuality

QualityInit ==
    /\ quality_input \in [deliverables : SeqsUpTo(QualityTypes, MaxOutputs),
                          issues : SeqsUpTo(IssueKinds, MaxIssues) \cup {ManyCritical}]
    /\ quality_result = NoQuality

\* quality_score = self._assess_quality(phase_outputs)
Assess ==
    /\ quality_result = NoQuality
    /\ quality_result' = _assess_quality(quality_input)
    /\ UNCHANGED quality_input


(***************************************************************************)
(* ----------------------------- DISPATCH -------------------------------- *)
(* SupervisorAgent.assign_task_to_specialist selects an executor through   *)
(* the router, delegates the task to it and increments its load.  The      *)
(* executor's handler (pm_system.py) publishes the result or the error     *)
(* report; no code of the program calls decrement_agent_load.  in_flight   *)
(* counts the tasks delegated to an agent whose result or error has not    *)
(* come back yet.                                                          *)
(***************************************************************************)
VARIABLES in_flight

dispatchVars == <<in_flight>>

DispatchInit == in_flight = [a \in RouterAgents |-> 0]

\* a supervisor that decrements the load when the task comes back
returned_decrement(load, a) == With(load, a, decremented(IF a \in DOMAIN load THEN load[a] ELSE 0))

\* what the supervisor does to agent_load when a task of agent a comes back
returned(load, a) == load

\* assign_task_to_specialist: select_agent(agent_type, load_balance=True),
\* ValueError when it returns None, else delegate_task and
\* increment_agent_load(specialist_id)
assign_task_to_specialist(t) ==
    LET candidates == Candidates(t, {})
        loads == [a \in DOMAIN agent_load \cup SeqToSet(candidates) |-> LoadOf(a)]
        specialist_id == IF candidates = <<>> THEN 0 ELSE least_loaded(candidates)
    IN /\ selected' = specialist_id
       /\ IF specialist_id = 0
            THEN /\ agent_load' = loads
                 /\ UNCHANGED in_flight
            ELSE /\ loads[specialist_id] < MaxLoad
                 /\ agent_load' = With(loads, specialist_id, loads[specialist_id] + 1)
                 /\ in_flight' = [in_flight EXCEPT ![specialist_id] = @ + 1]
       /\ UNCHANGED <<agent_registry, agent_capabilities>>

\* the handler of agent a publishes the task_result or the error_report of
\* one of its tasks
task_returns(a) ==
    /\ in_flight[a] > 0
    /\ in_flight' = [in_flight EXCEPT ![a] = @ - 1]
    /\ agent_load' = returned(agent_load, a)
    /\ UNCHANGED <<agent_registry, agent_capabilities, selected>>

\* PMAgentsSystem registers its agents with the router
DispatchRegister ==
    /\ \E a \in RouterAgents, t \in AgentTypes, c \in CapabilitySets :
          /\ a \notin DOMAIN agent_load
          /\ register_agent(a, t, c)
    /\ UNCHANGED in_flight

DispatchNext ==
    \/ DispatchRegister
    \/ \E t \in AgentTypes : assign_task_to_specialist(t)
    \/ \E a \in RouterAgents : task_returns(a)


(***************************************************************************)
(* -------------------------- EXECUTOR RESULTS --------------------------- *)
(* _execute_task_queue awaits specialist.execute_task and stores the       *)
(* returned TaskResult with the task (mark_completed) or, when the call    *)
(* raised, the error text (mark_failed).  The specialists catch their own  *)
(* exceptions and return a TaskResult whose status is FAILED.              *)
(* result_status[t] is the status in the result stored for task t,         *)
(* "raised" for a stored error, "none" before the executor has ended.      *)
(***************************************************************************)
VARIABLES result_status

resultVars == <<result_status>>

\* the statuses a specialist's execute_task sets in the TaskResult it returns
ReturnedStatuses == {"completed", "failed"}

ResultInit == result_status = [t \in TaskIds |-> "none"]

\* a supervisor that lets a result with another status than completed fail
stored(st) == IF st = "completed" THEN DriverCompleted ELSE DriverFailed

\* result = await specialist.execute_task(...);
\* self.task_queue.mark_completed(task["task_id"], result.to_dict())
store_result(st) == DriverCompleted

\* the specialist returned a TaskResult with status st
DriverReturned(st) ==
    /\ store_result(st)
    /\ result_status' = [result_status EXCEPT ![driver.task] = st]

\* except Exception as e: self.task_queue.mark_failed(task["task_id"], str(e))
DriverRaised ==
    /\ DriverFailed
    /\ result_status' = [result_status EXCEPT ![driver.task] = "raised"]

DrainNext ==
    \/ (DriverLoad \/ DriverStart \/ DriverGet \/ DriverAgain) /\ UNCHANGED result_status
    \/ \E st \in ReturnedStatuses : DriverReturned(st)
    \/ DriverRaised


(***************************************************************************)
(* ------------------------- SPECIFICATIONS ------------------------------ *)
(***************************************************************************)
vars == <<ledgerVars, phase_outputs, queueVars, busVars, routerVars, gateVars, intakeVars, checkpointVars, breakerVars, escalationVars, healthVars, qualityVars, dispatchVars, resultVars>>

\* the parts of the model a specification is not about
LedgerIdle == LedgerRest /\ phase_outputs = NoOutputs

EngineRest == GateRest /\ IntakeRest

OthersRest == QueueInit /\ BusInit /\ RouterInit /\ EngineRest /\ CheckpointInit /\ ResultInit /\ DispatchInit /\ QualityRest /\ HealthRest /\ EscalationRest /\ BreakerInit

InitLedger == LedgerInit /\ phase_outputs = NoOutputs /\ OthersRest

NextLedger ==
    LedgerNext /\ UNCHANGED <<phase_outputs, queueVars, busVars, routerVars, gateVars, intakeVars, checkpointVars, breakerVars, escalationVars, healthVars, qualityVars, dispatchVars, resultVars>>

SpecLedger == InitLedger /\ [][NextLedger]_vars

InitQueue == LedgerIdle /\ OthersRest

NextQueue ==
    QueueNext /\ UNCHANGED <<ledgerVars, phase_outputs, busVars, routerVars, gateVars, intakeVars, checkpointVars, breakerVars, escalationVars, healthVars, qualityVars, dispatchVars, resultVars>>

SpecQueue == InitQueue /\ [][NextQueue]_vars

NextDriver ==
    DriverNext /\ UNCHANGED <<ledgerVars, phase_outputs, busVars, routerVars, gateVars, intakeVars, checkpointVars, breakerVars, escalationVars, healthVars, qualityVars, dispatchVars, resultVars>>

SpecDriver == InitQueue /\ [][NextDriver]_vars

InitBus == LedgerIdle /\ OthersRest

NextBus ==
    BusNext /\ UNCHANGED <<ledgerVars, phase_outputs, queueVars, routerVars, gateVars, intakeVars, checkpointVars, delivery_attempts, pending_since, breakerVars, escalationVars, healthVars, qualityVars, dispatchVars, resultVars>>

SpecBus == InitBus /\ [][NextBus]_vars

\* the bus, with the routing steps that invoke handlers counted per message
NextBusCounted ==
    BusNext /\ CountAttempts /\ UNCHANGED <<ledgerVars, phase_outputs, queueVars, routerVars, gateVars, intakeVars, checkpointVars, pending_since, breakerVars, escalationVars, healthVars, qualityVars, dispatchVars, resultVars>>

SpecBusCounted == InitBus /\ [][NextBusCounted]_vars

NextBusTimed ==
    BusTimedNext /\ TrackSince /\ UNCHANGED <<ledgerVars, phase_outputs, queueVars, routerVars, gateVars, intakeVars, checkpointVars, delivery_attempts, breakerVars, escalationVars, healthVars, qualityVars, dispatchVars, resultVars>>

SpecBusTimed == InitBus /\ [][NextBusTimed]_vars

\* the router under register, unregister, select and load calls
InitRouter == LedgerIdle /\ OthersRest

NextRouter ==
    RouterNext /\ UNCHANGED <<ledgerVars, phase_outputs, queueVars, busVars, gateVars, intakeVars, checkpointVars, breakerVars, escalationVars, healthVars, qualityVars, dispatchVars, resultVars>>

SpecRouter == InitRouter /\ [][NextRouter]_vars

\* phase_gate_decision applied to one input
InitGate ==
    /\ LedgerIdle /\ QueueInit /\ BusInit /\ RouterInit /\ CheckpointInit /\ ResultInit /\ DispatchInit /\ QualityRest /\ HealthRest /\ EscalationRest /\ BreakerInit
    /\ GateInit /\ IntakeRest

NextGate ==
    Decide /\ UNCHANGED <<ledgerVars, phase_outputs, queueVars, busVars, routerVars, intakeVars, checkpointVars, breakerVars, escalationVars, healthVars, qualityVars, dispatchVars, resultVars>>

SpecGate == InitGate /\ [][NextGate]_vars

\* accept_request applied to one input
InitIntake ==
    /\ LedgerIdle /\ QueueInit /\ BusInit /\ RouterInit /\ CheckpointInit /\ ResultInit /\ DispatchInit /\ QualityRest /\ HealthRest /\ EscalationRest /\ BreakerInit
    /\ GateRest /\ IntakeInit

NextIntake ==
    Accept /\ UNCHANGED <<ledgerVars, phase_outputs, queueVars, busVars, routerVars, gateVars, checkpointVars, breakerVars, escalationVars, healthVars, qualityVars, dispatchVars, resultVars>>

SpecIntake == InitIntake /\ [][NextIntake]_vars

\* a project of the coordinator between its creation and its gate reviews
InitReview == ReviewInit /\ OthersRest

NextReview ==
    ReviewNext /\ UNCHANGED <<queueVars, busVars, routerVars, gateVars, intakeVars, checkpointVars, breakerVars, escalationVars, healthVars, qualityVars, dispatchVars, resultVars>>

SpecReview == InitReview /\ [][NextReview]_vars

\* a ledger, its checkpoint, and the ledger restored from it
InitCheckpoint == ReviewInit /\ OthersRest

NextCheckpoint ==
    CheckpointNext /\ UNCHANGED <<queueVars, busVars, routerVars, gateVars, intakeVars, breakerVars, escalationVars, healthVars, qualityVars, dispatchVars, resultVars>>

SpecCheckpoint == InitCheckpoint /\ [][NextCheckpoint]_vars

\* one agent's process_task calls, executor outcomes and breaker resets
InitBreaker == LedgerIdle /\ OthersRest

NextBreaker ==
    BreakerNext /\ UNCHANGED <<ledgerVars, phase_outputs, queueVars, busVars, routerVars, gateVars, intakeVars, checkpointVars, escalationVars, healthVars, qualityVars, dispatchVars, resultVars>>

SpecBreaker == InitBreaker /\ [][NextBreaker]_vars

\* handle_escalation applied to one escalation
InitEscalation ==
    /\ LedgerIdle /\ QueueInit /\ BusInit /\ RouterInit /\ EngineRest
    /\ CheckpointInit /\ ResultInit /\ DispatchInit /\ QualityRest /\ HealthRest /\ BreakerInit /\ EscalationInit

NextEscalation ==
    Escalate /\ UNCHANGED <<ledgerVars, phase_outputs, queueVars, busVars, routerVars, gateVars, intakeVars, checkpointVars, breakerVars, healthVars, qualityVars, dispatchVars, resultVars>>

SpecEscalation == InitEscalation /\ [][NextEscalation]_vars

\* is_healthy applied to one ledger
InitHealth == HealthInit /\ phase_outputs = NoOutputs /\ OthersRest

NextHealth ==
    CheckHealth /\ UNCHANGED <<phase_outputs, queueVars, busVars, routerVars, gateVars, intakeVars, checkpointVars, breakerVars, escalationVars, qualityVars, dispatchVars, resultVars>>

SpecHealth == InitHealth /\ [][NextHealth]_vars

\* a ledger under gate decisions for any phase and direct advance_phase calls
NextPhases ==
    PhaseNext /\ UNCHANGED <<phase_outputs, queueVars, busVars, routerVars, gateVars, intakeVars, checkpointVars, breakerVars, escalationVars, healthVars, qualityVars, dispatchVars, resultVars>>

SpecPhases == InitLedger /\ [][NextPhases]_vars

\* _assess_quality applied to one set of phase outputs
InitQuality ==
    /\ LedgerIdle /\ QueueInit /\ BusInit /\ RouterInit /\ EngineRest
    /\ CheckpointInit /\ ResultInit /\ DispatchInit /\ BreakerInit /\ EscalationRest /\ HealthRest /\ QualityInit

NextQuality ==
    Assess /\ UNCHANGED <<ledgerVars, phase_outputs, queueVars, busVars, routerVars, gateVars, intakeVars, checkpointVars, breakerVars, escalationVars, healthVars, dispatchVars, resultVars>>

SpecQuality == InitQuality /\ [][NextQuality]_vars

\* the supervisor assigning tasks to registered executors
InitDispatch == LedgerIdle /\ OthersRest

NextDispatch ==
    DispatchNext /\ UNCHANGED <<ledgerVars, phase_outputs, queueVars, busVars, gateVars, intakeVars, checkpointVars, breakerVars, escalationVars, healthVars, qualityVars, resultVars>>

SpecDispatch == InitDispatch /\ [][NextDispatch]_vars

\* the supervisor draining the queue, with the executors' results on record
NextDrain ==
    DrainNext /\ UNCHANGED <<ledgerVars, phase_outputs, busVars, routerVars, gateVars, intakeVars, checkpointVars, breakerVars, escalationVars, healthVars, qualityVars, dispatchVars>>

SpecDrain == InitQueue /\ [][NextDrain]_vars

(***************************************************************************)
(* ------------------------------ CLAIMS --------------------------------- *)
(***************************************************************************)

\* message m waits in some priority queue
InQueue(m) == \E p \in Priorities : m \in SeqToSet(bus_queues[p])

\* the dead-letter list holds message m with the given reason
DeadLettered(m, reason) ==
    \E i \in 1..Len(failed_messages) :
        failed_messages[i].message = m /\ failed_messages[i].reason = reason

\* C1 as stated: a worker hands a message of its tier to a handler only when
\* the queue of every more urgent tier is empty at that moment.
C1_Original ==
    [][\A p2 \in Priorities :
          (worker[p2].pc = "wait" /\ worker'[p2].pc = "call") =>
              \A p1 \in Priorities : Rank(p1) < Rank(p2) => bus_queues[p1] = <<>>]_vars

\* C2 as stated: the number of routing steps that invoke the handlers of a
\* message's recipient never exceeds max_delivery_attempts.
C2_Original ==
    \A m \in Msgs : delivery_attempts[m] <= max_delivery_attempts

\* C3 as stated, in the form a finite run decides: once max_delivery_attempts
\* routing steps of a message have ended with every handler failing, the
\* message is in the dead-letter list with the reason "Max delivery attempts
\* exceeded" and is not published again.
C3_Original ==
    \A m \in Msgs :
        (delivery_attempts[m] >= max_delivery_attempts /\ ~ handler_ok[m] /\ ~ InRoute(m)) =>
            /\ DeadLettered(m, "Max delivery attempts exceeded")
            /\ ~ InQueue(m)

\* C4: a routing step that finds no subscriber for the message's recipient
\* appends the message to the dead-letter list with the reason "No subscribers"
\* and the current time, invokes no handler, records no delivery and does not
\* publish the message again; from then on the message is in no queue and in
\* no routing step.
C4_NoSubscribersDeadLettered ==
    [][/\ \A p \in Priorities :
            (RouteStart(p) /\ subscribers[msg_recipient[Head(bus_queues[p])]] = 0) =>
                LET m == Head(bus_queues[p])
                IN /\ failed_messages' = Append(failed_messages,
                          [message |-> m, reason |-> "No subscribers", timestamp |-> now])
                   /\ worker'[p].pc # "call"
                   /\ handler_ok' = handler_ok
                   /\ message_history' = message_history
                   /\ \A q \in Priorities : m \notin SeqToSet(bus_queues'[q])
       /\ \A m \in Msgs :
            DeadLettered(m, "No subscribers") =>
                /\ DeadLettered(m, "No subscribers")'
                /\ ~ InQueue(m)'
                /\ ~ InRoute(m)']_vars

\* a message was dead-lettered for want of a subscriber while the bus was
\* running, and another message was delivered
C4_Witness ==
    /\ \E m \in Msgs : DeadLettered(m, "No subscribers")
    /\ message_history # <<>>

\* C5: get_next_task never moves to in-progress a task that has a
\* predecessor id outside the completed set at the moment of the call.
C5_NoEarlyDispatch ==
    [][\A t \in TaskIds :
          (t \notin in_progress /\ t \in in_progress') =>
              \A dep_id \in dependencies[t] : dep_id \in completed]_vars

\* a task with a predecessor has been dispatched
C5_Witness ==
    \E t \in in_progress : dependencies[t] # {}

RECURSIVE Reach(_, _)
\* the tasks reachable from the set S along at most n predecessor edges
Reach(S, n) ==
    IF n = 0 THEN S ELSE Reach(S \cup UNION {dependencies[u] : u \in S}, n - 1)

\* the direct and transitive predecessors of t
Ancestors(t) == Reach(dependencies[t], MaxTasks)

\* the dependency graph of the added tasks is acyclic
Acyclic == \A t \in Added : t \notin Ancestors(t)

\* every predecessor id names an added task
DepsClosed == \A t \in Added : dependencies[t] \subseteq Added

C8_GoAdvances ==
    [][\A p \in Phases :
          record_phase_gate_decision(p, "GO", ScoreOf("GO")) =>
              /\ phase = "initiation" => phase' = "planning"
              /\ phase = "planning" => phase' = "execution"
              /\ phase = "execution" => phase' = "monitoring"
              /\ phase = "monitoring" => phase' = "closure"
              /\ phase = "closure" => phase' = "closure" /\ status' = "completed"
              /\ phase # "closure" => status' = status]_vars

\* a GO has been recorded in closure
C8_Witness ==
    /\ phase = "closure"
    /\ status = "completed"
    /\ go_decisions["closure"].decision = "GO"

\* C9 as stated: in every reachable ledger state tokens_remaining equals
\* max(0, tokens_budget - tokens_used).
C9_Original ==
    tokens_remaining =
        IF tokens_budget - tokens_used > 0 THEN tokens_budget - tokens_used ELSE 0

\* C10 as stated: for any budget, update_token_usage(budget + 1) leaves
\* tokens_remaining at 0 and makes is_healthy() false.
C10_Original ==
    [][update_token_usage(tokens_budget + 1) =>
          (tokens_remaining' = 0 /\ ~ is_healthy')]_vars

\* C10 amended: for a positive budget, update_token_usage(budget + 1) leaves
\* tokens_remaining at 0 and makes is_healthy() false.
C10_PositiveBudget ==
    [][(tokens_budget > 0 /\ update_token_usage(tokens_budget + 1)) =>
          (tokens_remaining' = 0 /\ ~ is_healthy')]_vars

\* a ledger with a positive budget has been charged budget + 1 tokens
C10_Witness ==
    /\ tokens_budget > 0
    /\ api_calls = 1
    /\ tokens_used = tokens_budget + 1
    /\ tokens_remaining = 0

\* C11: in every reachable ledger state the status is "blocked" exactly when
\* some blocker is unresolved.
C11_Original == (status = "blocked") <=> (Unresolved(blockers) # {})

\* the inputs of the decided gate, as the engine receives them
GateOutputs == [deliverables |-> gate_input.deliverables, issues |-> gate_input.issues]

GateDecided == gate_result # NoResult

\* C12: phase_gate_decision returns NO_GO whenever the ledger record holds a
\* critical blocker whose status is not "resolved", for every phase, every
\* list of outputs, every risk list and every token balance.
C12_CriticalBlockerNoGo ==
    (/\ GateDecided
     /\ \E i \in 1..Len(gate_input.blockers) :
            /\ gate_input.blockers[i].severity = "critical"
            /\ gate_input.blockers[i].status # "resolved")
        => gate_result.decision = "NO_GO"

\* a gate with complete deliverables and enough tokens was stopped by a
\* critical blocker that follows a non-critical one
C12_Witness ==
    /\ GateDecided
    /\ gate_result.rationale = "Critical blockers must be resolved"
    /\ gate_input.tokens_remaining >= MIN_TOKENS_FOR_NEXT_PHASE
    /\ Len(gate_input.blockers) = 2

\* C13: once update_token_usage has taken the usage over the budget,
\* tokens_remaining is below the floor of 5000, a gate review of the ledger
\* records NO_GO and leaves the phase where it is; update_token_usage itself
\* changes neither phase nor status.
C13_ExhaustionStopsGate ==
    [][/\ (api_calls > 0 /\ tokens_used > tokens_budget) =>
            /\ tokens_remaining < MIN_TOKENS_FOR_NEXT_PHASE
            /\ \A p \in Phases :
                  conduct_phase_gate_review(p) =>
                      (go_decisions'[p].decision = "NO_GO" /\ phase' = phase)
       /\ (\E t \in TokenInputs(tokens_budget) : update_token_usage(t)) =>
            (phase' = phase /\ status' = status)]_vars

\* the usage is over the budget and a review of the current phase, whose
\* deliverables are complete and which never had a blocker, was stopped
C13_Witness ==
    /\ tokens_used > tokens_budget
    /\ blockers = <<>>
    /\ \E j \in 1..Len(phase_outputs[phase]) : phase_outputs[phase][j] = Checklist(phase)
    /\ go_decisions[phase] = [decision |-> "NO_GO", score |-> 0]

\* no hard stop applies to the decided gate
NoHardStop ==
    /\ _check_deliverables_complete(GateOutputs, _get_required_deliverables(gate_input.phase))
    /\ critical_blockers(gate_input.blockers) = {}
    /\ gate_input.tokens_remaining >= MIN_TOKENS_FOR_NEXT_PHASE

\* 100 - 30 [quality < 70] - 25 [an unmitigated critical risk exists]
ExpectedScore ==
    100 - (IF _assess_quality(GateOutputs) < 70 THEN 30 ELSE 0)
        - (IF \E i \in 1..Len(gate_input.risks) :
                 gate_input.risks[i].severity = "critical" /\ ~ gate_input.risks[i].mitigated
             THEN 25 ELSE 0)

\* C14: without a hard stop the score is 100 - 30 [quality < 70] - 25 [some
\* unmitigated critical risk]; the decision is GO iff score >= 90,
\* CONDITIONAL_GO iff 70 <= score < 90, NO_GO iff score < 70; the confidence
\* is score / 100.
C14_ScoreMapping ==
    (GateDecided /\ NoHardStop) =>
        /\ gate_result.has_score /\ gate_result.score = ExpectedScore
        /\ gate_result.decision = "GO" <=> gate_result.score >= 90
        /\ gate_result.decision = "CONDITIONAL_GO" <=>
               (70 <= gate_result.score /\ gate_result.score < 90)
        /\ gate_result.decision = "NO_GO" <=> gate_result.score < 70
        /\ gate_result.confidence = gate_result.score

\* a gate without a hard stop scored exactly 70 for low quality alone
C14_Witness ==
    /\ GateDecided /\ NoHardStop
    /\ gate_result.score = 70
    /\ gate_result.decision = "CONDITIONAL_GO"

IntakeDecided == intake_result # NoIntake

\* the request text contains a deny-listed keyword, in any letter case
DenyListMatch ==
    \E i \in 1..Len(intake_input.request) :
        intake_input.request[i].lower \cap malicious_keywords # {}

\* C15: accept_request returns reject with confidence 1.0 for every request
\* that matches the deny-list, whatever its length, punctuation, detected
\* category, context and token budget.
C15_DenyListRejected ==
    (IntakeDecided /\ DenyListMatch) =>
        (intake_result.decision = "reject" /\ intake_result.confidence = 100)

\* a capitalised, punctuated deny-list word in a question with a budget of
\* 1000 tokens and a supported category was rejected for safety
C15_Witness ==
    /\ IntakeDecided
    /\ \E i \in 1..Len(intake_input.request) : intake_input.request[i] = WordMalware
    /\ \E i \in 1..Len(intake_input.request) : intake_input.request[i] = WordWhy
    /\ intake_input.context.project_type = "fullstack"
    /\ intake_input.preferences.max_budget_tokens = 1000
    /\ intake_result.rationale = "Request violates safety policies"

\* C16: whenever accept_request returns clarify, the result carries at least
\* one required follow-up action, for every context.
C16_ClarifyHasAction ==
    (IntakeDecided /\ intake_result.decision = "clarify") =>
        Len(intake_result.required_actions) >= 1

\* a one-word question whose context names the project type was sent back
C16_Witness ==
    /\ IntakeDecided
    /\ intake_input.request = <<WordWhy>>
    /\ intake_input.context.project_type = "fullstack"
    /\ intake_result.decision = "clarify"

\* the four checks, stated from the intake's contract
TooVague ==
    \/ Len(intake_input.request) < 5
    \/ \E i \in 1..Len(intake_input.request) : "?" \in intake_input.request[i].exact

DetectedType == _detect_project_type(intake_input.request, intake_input.context)

OverBudget ==
    _estimate_resources(intake_input.request, DetectedType) > max_budget(intake_input.preferences)

Unsupported == DetectedType \notin SUPPORTED_TYPES

\* C17: accept_request returns the outcome of the first failing check in the
\* order safety, ambiguity, feasibility, support (reject, clarify, reject for
\* the budget, reject for the category), and accept with confidence 0.95
\* exactly when all four pass.
C17_FirstFailingCheck ==
    IntakeDecided =>
        /\ DenyListMatch =>
              intake_result.rationale = "Request violates safety policies"
        /\ (~ DenyListMatch /\ TooVague) => intake_result.decision = "clarify"
        /\ (~ DenyListMatch /\ ~ TooVague /\ OverBudget) =>
              (/\ intake_result.decision = "reject"
               /\ intake_result.rationale = "Exceeds token budget")
        /\ (~ DenyListMatch /\ ~ TooVague /\ ~ OverBudget /\ Unsupported) =>
              (/\ intake_result.decision = "reject"
               /\ intake_result.rationale = "Project type not supported")
        /\ (intake_result.decision = "accept" /\ intake_result.confidence = 95) <=>
              (~ DenyListMatch /\ ~ TooVague /\ ~ OverBudget /\ ~ Unsupported)
        /\ intake_result.decision = "accept" => intake_result.confidence = 95

\* a five-word request within a budget of 15000 tokens was accepted
C17_Witness ==
    /\ IntakeDecided
    /\ Len(intake_input.request) = 5
    /\ intake_input.preferences.has_budget
    /\ intake_input.preferences.max_budget_tokens = 15000
    /\ intake_result.decision = "accept"

\* the agents in the registry list of type t that declare every capability of r
Qualified(t, r) == {a \in SeqToSet(agent_registry[t]) : r \subseteq CapabilitiesOf(a)}

\* the position of the earliest registration of a under type t
FirstPosition(a, t) ==
    CHOOSE i \in 1..Len(agent_registry[t]) :
        agent_registry[t][i] = a /\ \A j \in 1..(i - 1) : agent_registry[t][j] # a

\* res is what the contract of select_agent(t, r, lb) allows
SelectionAllowed(t, r, lb, res) ==
    /\ res = 0 <=> Qualified(t, r) = {}
    /\ res # 0 =>
          /\ res \in Qualified(t, r)
          /\ lb => \A b \in Qualified(t, r) :
                      /\ LoadOf(res) <= LoadOf(b)
                      /\ LoadOf(b) = LoadOf(res) => FirstPosition(res, t) <= FirstPosition(b, t)
          /\ ~ lb => \A b \in Qualified(t, r) : FirstPosition(res, t) <= FirstPosition(b, t)

C19_LoadNeverNegative ==
    [][/\ \A a \in DOMAIN agent_load' : agent_load'[a] >= 0
       /\ \A a \in DOMAIN agent_load :
            (agent_load[a] = 0 /\ decrement_agent_load(a)) => agent_load'[a] = 0]_vars

\* a counter that select_agent created anew for an agent whose entries were
\* removed is 0 while another counter is at its highest value
C19_Witness ==
    \E a, b \in DOMAIN agent_load :
        /\ agent_load[a] = 0
        /\ agent_load[b] = MaxLoad
        /\ a \notin DOMAIN agent_capabilities

\* the restored ledger equals the original field by field
RoundTripEqual ==
    /\ restored'.status = status /\ restored'.phase = phase
    /\ restored'.tokens_budget = tokens_budget /\ restored'.tokens_used = tokens_used
    /\ restored'.tokens_remaining = tokens_remaining /\ restored'.api_calls = api_calls
    /\ restored'.phase_outputs = phase_outputs /\ restored'.deliverables = deliverables
    /\ restored'.risks = risks /\ restored'.issues = issues
    /\ restored'.blockers = blockers /\ restored'.go_decisions = go_decisions

InvokesExecutor == task'.pc = "execute" /\ task.pc # "execute"

\* C21 as stated: while circuit_breaker_failures has reached the threshold,
\* no step invokes the executor, and a process_task call returns the
\* circuit-open result at once.
C21_Original ==
    [][circuit_breaker_open =>
          /\ ~ InvokesExecutor
          /\ process_task => (last_result' = "circuit_open" /\ task' = NoTask)]_vars

\* what holds of C21: a call of process_task that starts while the breaker is
\* open returns the circuit-open result without invoking the executor.
C21_OpenAtEntry ==
    [][(circuit_breaker_open /\ process_task) =>
          (last_result' = "circuit_open" /\ task' = NoTask /\ ~ InvokesExecutor)]_vars

\* C22 as stated: an open breaker stays open in every step that is not
\* reset_circuit_breaker; the reset leaves the count at 0 and the next
\* process_task call invokes the executor.
C22_Original ==
    [][/\ (circuit_breaker_open /\ ~ reset_circuit_breaker) => circuit_breaker_open'
       /\ reset_circuit_breaker => circuit_breaker_failures' = 0
       /\ (circuit_breaker_failures = 0 /\ process_task) => InvokesExecutor]_vars

\* C23 as stated: after acknowledge(m, recipient, st), for every status st,
\* m is not in pending_messages and an acknowledgment record of m exists.
C23_Original ==
    [][\A m \in Msgs, st \in AckStatuses :
          Acknowledge(m, st) =>
              /\ ~ IsPending(pending_messages', m)
              /\ acknowledged_messages'[m] # "none"]_vars

\* what holds of C23: the acknowledgment record is written for every status,
\* and the pending entry is removed for the status "processed".
C23_ProcessedOnly ==
    [][\A m \in Msgs, st \in AckStatuses :
          Acknowledge(m, st) =>
              /\ acknowledged_messages'[m] = st
              /\ st = "processed" => ~ IsPending(pending_messages', m)]_vars

\* pending message m has no acknowledgment and has been in pending_messages
\* for longer than the timeout
Overdue(m) ==
    /\ IsPending(pending_messages, m)
    /\ acknowledged_messages[m] = "none"
    /\ now - pending_since[m] > acknowledgment_timeout_seconds

\* the dead-letter list fm holds an entry of m with the given reason
DeadLetteredIn(fm, m, reason) ==
    \E i \in 1..Len(fm) : fm[i].message = m /\ fm[i].reason = reason

\* the number of entries of m in the dead-letter list fm
DeadLetterCount(fm, m) == Cardinality({i \in 1..Len(fm) : fm[i].message = m})

\* C24 as stated: a sweep dead-letters, with the timeout reason, every
\* unacknowledged message that has been pending for longer than
\* acknowledgment_timeout_seconds and removes it from pending_messages, and
\* it dead-letters no pending message that has been there for less.
C24_Original ==
    [][Sweep => \A m \in Msgs :
          /\ Overdue(m) =>
                /\ DeadLetteredIn(failed_messages', m, "Acknowledgment timeout")
                /\ ~ IsPending(pending_messages', m)
          /\ (IsPending(pending_messages, m)
                /\ now - pending_since[m] <= acknowledgment_timeout_seconds) =>
                DeadLetterCount(failed_messages', m) = DeadLetterCount(failed_messages, m)]_vars

\* what holds of C24: the sweep goes by the first_attempt stamp of the pending
\* entry, which every routing step of the message writes anew.
C24_ByStamp ==
    [][Sweep => \A i \in 1..Len(pending_messages) :
          LET e == pending_messages[i]
              m == e.message_id
          IN IF Expired(e, now)
               THEN /\ DeadLetteredIn(failed_messages', m, "Acknowledgment timeout")
                    /\ ~ IsPending(pending_messages', m)
               ELSE /\ IsPending(pending_messages', m)
                    /\ DeadLetterCount(failed_messages', m) = DeadLetterCount(failed_messages, m)]_vars

\* message m is in the delivered history
InHistory(m) == \E i \in 1..Len(message_history) : message_history[i] = m

\* C25 as stated: once the routing step of a message has ended, a message
\* one of whose handlers completed without error is in the delivered history.
C25_Original ==
    \A m \in Msgs : (handler_ok[m] /\ ~ InRoute(m)) => InHistory(m)

\* a routing step of m ends in this step
RouteEnds(m) == InRoute(m) /\ ~ InRoute(m)'

\* what holds of C25: a routing step that ends while the message is still in
\* pending_messages, with one of its handlers completed, appends the message
\* to the delivered history.
C25_WhilePending ==
    [][\A m \in Msgs :
          (RouteEnds(m) /\ handler_ok'[m] /\ IsPending(pending_messages, m)) =>
              InHistory(m)']_vars

\* the routing step has taken message m and is done with it
RoutingFinished(m) == m <= published /\ ~ InQueue(m) /\ ~ InRoute(m)

\* message m is in the dead-letter list
InDeadLetter(m) == DeadLetterCount(failed_messages, m) > 0

\* C26 as stated: a message the routing step is done with has exactly one
\* terminal record, in the delivered history or in the dead-letter list, and
\* no message is in both.
C26_Original ==
    \A m \in Msgs :
        /\ ~ (InHistory(m) /\ InDeadLetter(m))
        /\ RoutingFinished(m) =>
              Cardinality({i \in 1..Len(message_history) : message_history[i] = m})
                 + DeadLetterCount(failed_messages, m) = 1

\* a message that is in the delivered history and in the dead-letter list
C26_InBoth == \E m \in Msgs : InHistory(m) /\ InDeadLetter(m)

\* worker p takes message m for its first routing step in this step
FirstTaken(p, m) ==
    /\ worker[p].pc = "wait"
    /\ bus_queues[p] # <<>>
    /\ Head(bus_queues[p]) = m
    /\ bus_queues'[p] = Tail(bus_queues[p])
    /\ ~ IsPending(pending_messages, m)

Escalated == esc_result # NoResponse

\* C28: the response to a safety_concern is terminate_and_report with the
\* priority critical whatever the severity, stated or missing; the response
\* to a technical_blocker is pause_and_ask_user when the severity is
\* critical and try_alternative_approach otherwise; the response to a type
\* handle_escalation does not name is ask_user_for_decision.
C28_EscalationMapping ==
    Escalated =>
        LET type == get(esc_input, "type", None)
            critical == "severity" \in DOMAIN esc_input /\ esc_input["severity"] = "critical"
        IN /\ type = "safety_concern" =>
                 /\ esc_result.action = "terminate_and_report"
                 /\ "priority" \in DOMAIN esc_result
                 /\ esc_result.priority = "critical"
           /\ type = "technical_blocker" =>
                 esc_result.action =
                     IF critical THEN "pause_and_ask_user" ELSE "try_alternative_approach"
           /\ type \notin KnownEscalations => esc_result.action = "ask_user_for_decision"

\* a safety concern without a severity has been handled
C28_Witness ==
    /\ Escalated
    /\ get(esc_input, "type", None) = "safety_concern"
    /\ "severity" \notin DOMAIN esc_input

\* the ledger has an unresolved critical blocker
UnresolvedCriticalBlocker ==
    \E i \in Unresolved(blockers) : blockers[i].severity = "critical"

\* the critical issues of the ledger that are not resolved
UnresolvedCriticalIssues ==
    {i \in 1..Len(issues) :
        issues[i].severity = "critical" /\ issues[i].status # "resolved"}

\* C29: is_healthy() returns False exactly when the ledger has an unresolved
\* critical blocker, or less than a tenth of the budget remains, or more
\* than two critical issues are unresolved; the call changes no field of the
\* ledger.
C29_HealthCheck ==
    /\ [](health_result # "none" =>
            (health_result = "False" <=>
                \/ UnresolvedCriticalBlocker
                \/ 10 * tokens_remaining < tokens_budget
                \/ Cardinality(UnresolvedCriticalIssues) > 2))
    /\ [][CheckHealth => UNCHANGED ledgerVars]_vars

\* is_healthy() has returned True for a ledger with three critical issues,
\* one of them resolved, and a resolved critical blocker
C29_Witness ==
    /\ health_result = "True"
    /\ Cardinality({i \in 1..Len(issues) : issues[i].severity = "critical"}) > 2
    /\ \E i \in 1..Len(blockers) : blockers[i].severity = "critical"

\* C30: the phase is always one of the five phases, and no call moves it
\* backwards in the order of phases or forwards by more than one phase.
C30_ForwardOnly ==
    /\ [](phase \in Phases)
    /\ [][/\ PhaseIndex(phase') >= PhaseIndex(phase)
          /\ PhaseIndex(phase') <= PhaseIndex(phase) + 1]_vars

\* direct advance_phase calls alone have taken the ledger to the last phase
\* and completed it
C30_Witness ==
    /\ phase = phases[Len(phases)]
    /\ status = "completed"
    /\ \A p \in Phases : go_decisions[p] = NoDecision

\* pending task t waits at position i of the bucket with rank k
WaitsAt(t, k, i) ==
    /\ k \in 1..Len(priorityOrder)
    /\ i \in 1..Len(queues[priorityOrder[k]])
    /\ queues[priorityOrder[k]][i] = t

\* pending task t can be dispatched: all its predecessors are completed
Dispatchable(t) == t \in Pending /\ dependencies[t] \subseteq completed

\* dispatchable task u comes before task t in the scan: in a more urgent
\* bucket, or earlier in the same bucket
Precedes(u, t) ==
    \E ku, kt \in 1..Len(priorityOrder), iu, it \in 1..MaxTasks :
        /\ WaitsAt(u, ku, iu)
        /\ WaitsAt(t, kt, it)
        /\ ku < kt \/ (ku = kt /\ iu < it)

\* C31: when some pending task is dispatchable, get_next_task returns a
\* dispatchable task that no other dispatchable task precedes, by bucket or
\* by position in its bucket, and moves it from its bucket to in_progress;
\* when none is dispatchable it returns None and changes nothing.
C31_HighestPriorityFirst ==
    [][DriverGet =>
          IF \E t \in TaskIds : Dispatchable(t)
            THEN \E t \in TaskIds :
                    /\ driver' = [pc |-> "exec", task |-> t]
                    /\ Dispatchable(t)
                    /\ \A u \in TaskIds : Dispatchable(u) => ~ Precedes(u, t)
                    /\ in_progress' = in_progress \cup {t}
                    /\ Pending' = Pending \ {t}
                    /\ UNCHANGED <<completed, failed>>
            ELSE /\ driver'.pc = "done"
                 /\ UNCHANGED <<queues, in_progress, completed, failed>>]_vars

\* get_next_task has returned a task that the head of the critical bucket
\* waits for: the scan went past a task that is not dispatchable
C31_Witness ==
    /\ driver.pc = "exec"
    /\ driver.task \in in_progress
    /\ queues["critical"] # <<>>
    /\ driver.task \in dependencies[queues["critical"][1]]

\* _assess_quality has returned
Assessed == quality_result # NoQuality

\* some deliverable of the assessed outputs has the word in its type
HasTyped(word) ==
    \E j \in 1..Len(quality_input.deliverables) : word \in quality_input.deliverables[j]

\* 75, plus 10 for documentation, plus 10 for tests, minus 10 for each of
\* the n counted issues, clamped to [0, 100]
BonusScore(n) ==
    Min(Max(75 + (IF HasTyped("documentation") THEN 10 ELSE 0)
               + (IF HasTyped("test") THEN 10 ELSE 0) - 10 * n, 0), 100)

\* C32 as stated: for every set of phase outputs the quality score is the
\* clamped sum in which only the unresolved critical issues are counted.
C32_Original ==
    Assessed =>
        quality_result = BonusScore(Cardinality(
            {i \in 1..Len(quality_input.issues) :
                /\ quality_input.issues[i].severity = "critical"
                /\ quality_input.issues[i].status # "resolved"}))

\* what holds of C32: with at least one deliverable the score is the clamped
\* sum in which every critical issue is counted, resolved or not; without
\* deliverables it is 0.
C32_AsCoded ==
    Assessed =>
        quality_result =
            IF quality_input.deliverables = <<>> THEN 0
            ELSE BonusScore(Cardinality(
                    {i \in 1..Len(quality_input.issues) :
                        quality_input.issues[i].severity = "critical"}))

\* C33 as stated: the router load of every executor equals the number of its
\* tasks in flight, so an executor without a task in flight has load 0.
C33_Original ==
    \A a \in RouterAgents : LoadOf(a) = in_flight[a]

\* what holds of C33: the load of an executor is at least the number of its
\* tasks in flight, and a returning task does not change it.
C33_LoadOnlyGrows ==
    /\ [](\A a \in RouterAgents : LoadOf(a) >= in_flight[a])
    /\ [][\A a \in RouterAgents : task_returns(a) => LoadOf(a)' = LoadOf(a)]_vars


\* C34 as stated: no message has more than one dead-letter entry, and a
\* message that has been dead-lettered is no longer in pending_messages.
C34_Original ==
    \A m \in Msgs :
        /\ DeadLetterCount(failed_messages, m) <= 1
        /\ InDeadLetter(m) => ~ IsPending(pending_messages, m)

\* a message with two dead-letter entries, the second one made by the sweep
C34_TwiceDeadLettered ==
    \E m \in Msgs :
        /\ DeadLetterCount(failed_messages, m) = 2
        /\ DeadLetteredIn(failed_messages, m, "Acknowledgment timeout")

\* C35 as stated: when the routing step of a message resumes after its last
\* handler, the message's entry is still in pending_messages.
C35_Original ==
    [][\A m \in Msgs : RouteEnds(m) => IsPending(pending_messages, m)]_vars

\* a routing step is suspended in a handler while the entry of its message
\* is gone from pending_messages
C35_EntryGone ==
    \E p \in Priorities :
        /\ worker[p].pc = "call"
        /\ ~ IsPending(pending_messages, worker[p].msg)


\* agent a has been registered and not unregistered since: register_agent
\* writes agent_capabilities[a] and unregister_agent deletes it
Registered(a) == a \in DOMAIN agent_capabilities

\* C36 as stated: select_agent returns no agent that has been unregistered
\* and not registered again, whatever the type, the required capabilities
\* and the load_balance setting.
C36_Original ==
    [][\A t \in AgentTypes, r \in CapabilitySets, lb \in BOOLEAN :
          select_agent(t, r, lb) => (selected' = 0 \/ Registered(selected'))]_vars

\* an unregistered agent that is still in a registry list
C36_StillListed ==
    \E a \in RouterAgents, t \in AgentTypes :
        ~ Registered(a) /\ a \in SeqToSet(agent_registry[t])

\* what holds of C36: select_agent returns nothing or a member of the
\* registry list of the requested type.
C36_FromRegistry ==
    [][\A t \in AgentTypes, r \in CapabilitySets, lb \in BOOLEAN :
          select_agent(t, r, lb) =>
              (selected' = 0 \/ selected' \in SeqToSet(agent_registry[t]))]_vars


\* the number of places that hold task t: its occurrences in the priority
\* queues, and one for each of in_progress, completed and failed it is in
Places(t) ==
    Cardinality({<<p, i>> \in TaskPriorities \X (1..MaxTasks) :
                    i <= Len(queues[p]) /\ queues[p][i] = t})
      + (IF t \in in_progress THEN 1 ELSE 0)
      + (IF t \in completed THEN 1 ELSE 0)
      + (IF t \in failed THEN 1 ELSE 0)

\* C37: with distinct task ids, a task is in no place before it is added and
\* in exactly one of pending, in-progress, completed and failed from then on;
\* the total of get_progress starts at 0, grows by one with every add_task
\* and is changed by no other operation; and a task in completed or failed
\* stays there.
C37_OnePlaceEach ==
    /\ [](\A t \in TaskIds : Places(t) <= 1)
    /\ [](Cardinality(Added) = 0 => get_progress.total = 0)
    /\ [][/\ \A t \in TaskIds :
                /\ Places(t) = 1 => Places(t)' = 1
                /\ (\E p \in TaskPriorities, deps \in SUBSET TaskIds : add_task(t, p, deps))
                      => (Places(t) = 0 /\ Places(t)' = 1)
          /\ get_progress'.total = get_progress.total + (IF AddTask THEN 1 ELSE 0)
          /\ completed \subseteq completed'
          /\ failed \subseteq failed']_vars

\* every task has been added, one is completed and one has failed
C37_Witness ==
    /\ get_progress.total = MaxTasks
    /\ get_progress.completed > 0
    /\ get_progress.failed > 0
    /\ get_progress.completion_percentage > 0


\* task t has been handed out by get_next_task
Dispatched38(t) == t \in in_progress \cup completed \cup failed

\* C38 as stated: a task is in completed only if its executor returned a
\* result with status completed, and every predecessor of a task that has
\* been dispatched has such a result.
C38_Original ==
    /\ \A t \in completed : result_status[t] = "completed"
    /\ \A t \in TaskIds : Dispatched38(t) =>
          \A dep_id \in dependencies[t] : result_status[dep_id] = "completed"

\* a task has been dispatched although the result of one of its predecessors
\* has status failed
C38_FailedUnblocks ==
    \E t \in TaskIds :
        /\ Dispatched38(t)
        /\ \E dep_id \in dependencies[t] : result_status[dep_id] = "failed"

\* what holds of C38: a task whose execution raised is in failed and never in
\* completed, and a task whose executor returned is in completed whatever the
\* status of the result.
C38_ReturnedIsCompleted ==
    \A t \in TaskIds :
        /\ result_status[t] = "raised" => (t \in failed /\ t \notin completed)
        /\ result_status[t] \in ReturnedStatuses => t \in completed


\* C39 as stated: recording GO for a phase other than the ledger's current
\* phase leaves the ledger's phase and status unchanged.
C39_Original ==
    [][\A p \in Phases :
          (p # phase /\ record_phase_gate_decision(p, "GO", ScoreOf("GO"))) =>
              (phase' = phase /\ status' = status)]_vars

\* the ledger has moved past planning although no decision was ever recorded
\* for planning: a second GO for initiation took it from planning to execution
C39_SkippedGate ==
    /\ phase = "execution"
    /\ go_decisions["initiation"].decision = "GO"
    /\ go_decisions["planning"] = NoDecision
    /\ blockers = <<>>

\* what holds of C39: recording GO moves the ledger from its own current
\* phase to that phase's successor, whatever phase the decision is filed under.
C39_AdvancesCurrent ==
    [][\A p \in Phases :
          record_phase_gate_decision(p, "GO", ScoreOf("GO")) =>
              (phase' = NextPhase(phase) /\ status' = NextStatus(phase, status))]_vars

\* C40 as stated: once the status is completed, no step changes the status
\* or the phase.
C40_Original ==
    [][status = "completed" => (status' = "completed" /\ phase' = phase)]_vars

\* a ledger that was completed by a GO in closure is blocked or in progress
\* again
C40_Reopened ==
    /\ phase = "closure"
    /\ go_decisions["closure"].decision = "GO"
    /\ status \in {"blocked", "in_progress"}
    /\ blockers # <<>>

\* what holds of C40: once the status is completed the phase stays closure,
\* and the status is changed only by add_blocker and resolve_blocker.
C40_PhaseStays ==
    [][status = "completed" =>
          /\ phase = "closure" /\ phase' = "closure"
          /\ status' # status =>
                \/ \E sev \in Severities : add_blocker(sev)
                \/ \E i \in 1..(MaxBlockers + 1) : resolve_blocker(i)]_vars

====
